---- MODULE Spec2Model ----
(***************************************************************************)
(* A model of the CV / portfolio publishing toolchain:                     *)
(*   - the editor service's document store (server.js): GET /api/data and  *)
(*     POST /api/data with its backup rotation;                            *)
(*   - the localizer (localizeData) over JSON document trees;              *)
(*   - the site renderer's derived data (renderTemplate) and the preview   *)
(*     renderer (renderHTML).                                              *)
(* Each part has its own specification; the variables of the other parts   *)
(* stay at their idle values.                                              *)
(***************************************************************************)
EXTENDS Integers, Sequences, FiniteSets, TLC

VARIABLES
    clock,      \* Date.now() of the server process, in milliseconds
    dataFile,   \* content of cv_data.json: NoFile, a document, or Truncated
    backups,    \* cv_data_backup_<ts>.json files: timestamp -> content
    reqs,       \* the POST /api/data requests in flight: the body of each
                \* (req.body) and where its handler stands
    resp,       \* the response the service sent in the step just taken, if any
    hist,       \* history of the run (not program state), for stating the claims
    input,      \* the document (data) a caller passes to localizeData
    lang,       \* the target language code the caller passes
    output,     \* what the calls of localizeData returned so far, in order
    cv,         \* the document (data / rawData) handed to a renderer
    page,       \* what the renderer produced from it, if it ran
    puppeteer,  \* whether require('puppeteer') succeeds on this machine
    jobs,       \* the exports, previews and uploads started so far, each with
                \* its input, where it stands and what its caller has seen
    browsers,   \* the browser instances launched so far: "open" or "closed"
    photos,     \* the fotos directory: whether it exists, and its files
                \* (name -> the upload whose content the file holds)
    docs,       \* the output tree of the site builder (OUTPUT_DIR): whether
                \* it exists, its directories and its files (path -> content)
    build,      \* the run of the site builder: its inputs, where it stands,
                \* its exit status
    cli,        \* the run of the PDF command line tool: its arguments, where
                \* it stands, what it printed and wrote, its exit status
    editor,     \* the editor client in the browser: its refs, its document,
                \* its timer, its requests in flight, the preview frame
    theme       \* a page of the portfolio site in the browser: data-theme,
                \* localStorage, the system preference

serverVars == <<clock, dataFile, backups, reqs, resp, hist>>
localizerVars == <<input, lang, output>>
rendererVars == <<cv, page>>
jobVars == <<puppeteer, jobs, browsers, photos>>
builderVars == <<docs, build>>
clientVars == <<cli, editor, theme>>
vars == <<serverVars, localizerVars, rendererVars, jobVars, builderVars, clientVars>>

----------------------------------------------------------------------------
(* Bounds of the model *)

\* first value of Date.now() in a run; all timestamps of a run have the same
\* number of decimal digits (Date.now() has 13 digits from 2001 to 2286)
FirstTick == 10
\* number of milliseconds a run lasts
MaxTicks == 6
\* number of save requests in flight at a time
MaxInFlight == 2
\* number of save requests in a run
MaxSaves == 7
\* number of file-system failures in a run
MaxFaults == 1
\* length of the lists of scalars in the documents given to the localizer
MaxLen == 2

(* Program constants *)

\* backups.slice(5): the number of backups a save keeps
KeepBackups == 5

Docs == {"docA", "docB"}
NoFile == "ENOENT"
Truncated == "truncated"
Failed == "failed"
NoResp == [op |-> "none", code |-> 0, doc |-> NoFile, msg |-> ""]

\* the editor service before it is started (the other parts are running)
ServerIdle ==
    /\ clock = FirstTick /\ dataFile = NoFile /\ backups = [t \in {} |-> NoFile]
    /\ reqs = {} /\ resp = NoResp
    /\ hist = [hadDoc |-> FALSE, okSaves |-> 0, faults |-> 0,
               lastDone |-> NoFile, newestGone |-> 0]

Min(a, b) == IF a < b THEN a ELSE b

----------------------------------------------------------------------------
(* File names of the backups and their order in Array.prototype.sort() *)

RECURSIVE Digits(_)
\* the decimal digits of Date.now() as they appear in the backup's file name
Digits(n) == IF n < 10 THEN <<n>> ELSE Append(Digits(n \div 10), n % 10)

RECURSIVE StrLess(_, _)
\* a < b for two file names cv_data_backup_<a>.json, cv_data_backup_<b>.json
\* compared as strings: the names differ from the digits on, and the
\* character '.' that ends the shorter digit run sorts before every digit
StrLess(a, b) ==
    IF a = <<>> THEN b # <<>>
    ELSE IF b = <<>> THEN FALSE
    ELSE IF Head(a) # Head(b) THEN Head(a) < Head(b)
    ELSE StrLess(Tail(a), Tail(b))

RECURSIVE SortNames(_)
\* readdirSync(BASE_DIR).filter(backupPattern).sort(): ascending by name
SortNames(S) ==
    IF S = {} THEN <<>>
    ELSE LET m == CHOOSE x \in S : \A y \in S \ {x} : StrLess(Digits(x), Digits(y))
         IN  <<m>> \o SortNames(S \ {m})

Reverse(s) == [i \in 1..Len(s) |-> s[Len(s) + 1 - i]]

\* a mutant of ToDelete: one backup too many is kept
ToDeleteKeepsSix(S) ==
    LET l == Reverse(SortNames(S)) IN SubSeq(l, KeepBackups + 2, Len(l))

\* backups.slice(5) of the names sorted and reversed: the backups to unlink,
\* in the order forEach visits them
ToDelete(S) ==
    LET l == Reverse(SortNames(S)) IN SubSeq(l, KeepBackups + 1, Len(l))

Range(s) == {s[i] : i \in 1..Len(s)}

\* the backup files without the files named in D
Unlinked(D) == [t \in (DOMAIN backups) \ D |-> backups[t]]

----------------------------------------------------------------------------
(* JSON documents: a value is a record of its type (typeof, with arrays and
   null told apart) and its content *)

Str(x) == [t |-> "string", v |-> x]
Null == [t |-> "null", v |-> 0]
Arr(seq) == [t |-> "array", v |-> seq]
Obj(f) == [t |-> "object", v |-> f]

\* LANGUAGES
Langs == {"en", "nl"}

\* the localizer at rest (the other parts of the toolchain are running)
LocalizerIdle == input = Null /\ lang = "en" /\ output = <<>>

\* no page rendered
NoPage == [by |-> "none"]
RendererIdle == cv = Null /\ page = NoPage

\* no export, preview or upload started
JobsIdle ==
    /\ puppeteer = TRUE
    /\ jobs = <<>>
    /\ browsers = <<>>
    /\ photos = [dir |-> TRUE, files |-> <<>>]

\* an output tree that does not exist
NoTree == [exists |-> FALSE, dirs |-> {}, files |-> <<>>]

\* no site build has run
NoBuild ==
    [pc |-> "idle", n |-> 0, source |-> "ok", templates |-> TRUE, assets |-> {},
     i |-> 0, exit |-> -1, before |-> NoTree, written |-> <<>>]

\* the site builder is not part of the run
BuilderIdle == docs = NoTree /\ build = NoBuild

\* the command line tool has not been started, no page is open in a browser
NoCli == [pc |-> "idle"]
NoEditor == [pc |-> "closed"]
NoTheme == [pc |-> "closed"]
ClientIdle == cli = NoCli /\ editor = NoEditor /\ theme = NoTheme

----------------------------------------------------------------------------
(* The localizer *)

RECURSIVE localizeDataAlwaysEn(_, _)
\* a mutant of localizeData: the language object is read under "en" whatever
\* the target language
localizeDataAlwaysEn(data, lng) ==
    IF data.t = "array"
        THEN Arr([i \in 1..Len(data.v) |-> localizeDataAlwaysEn(data.v[i], lng)])
    ELSE IF data.t = "object"
        THEN IF "en" \in DOMAIN data.v /\ data.v["en"].t \in {"string", "array"}
                 THEN data.v["en"]
             ELSE Obj([k \in DOMAIN data.v |-> localizeDataAlwaysEn(data.v[k], lng)])
    ELSE data

RECURSIVE localizeDataFallback(_, _)
\* a mutant of localizeData: a language object without the target language
\* resolves to its English value
localizeDataFallback(data, lng) ==
    IF data.t = "array"
        THEN Arr([i \in 1..Len(data.v) |-> localizeDataFallback(data.v[i], lng)])
    ELSE IF data.t = "object"
        THEN IF lng \in DOMAIN data.v /\ data.v[lng].t \in {"string", "array"}
                 THEN data.v[lng]
             ELSE IF "en" \in DOMAIN data.v /\ data.v["en"].t \in {"string", "array"}
                 THEN data.v["en"]
             ELSE Obj([k \in DOMAIN data.v |-> localizeDataFallback(data.v[k], lng)])
    ELSE data

RECURSIVE localizeDataSkipsFirst(_, _)
\* a mutant of localizeData: the loop over a list starts at its second item
localizeDataSkipsFirst(data, lng) ==
    IF data.t = "array"
        THEN Arr([i \in 1..(Len(data.v) - 1) |->
                    localizeDataSkipsFirst(data.v[i + 1], lng)])
    ELSE IF data.t = "object"
        THEN IF lng \in DOMAIN data.v /\ data.v[lng].t \in {"string", "array"}
                 THEN data.v[lng]
             ELSE Obj([k \in DOMAIN data.v |-> localizeDataSkipsFirst(data.v[k], lng)])
    ELSE data

RECURSIVE localizeData(_, _)
\* function localizeData(data, lang)
localizeData(data, lng) ==
    IF data.t = "array"
        THEN Arr([i \in 1..Len(data.v) |-> localizeData(data.v[i], lng)])
    ELSE IF data.t = "object"
        THEN IF lng \in DOMAIN data.v /\ data.v[lng].t \in {"string", "array"}
                 THEN data.v[lng]
             ELSE Obj([k \in DOMAIN data.v |-> localizeData(data.v[k], lng)])
    ELSE data

\* a mutant of dataAfterLocalize: the localized values are stored back into
\* the object that was passed in
dataAfterLocalizeInPlace(data, lng) == localizeData(data, lng)

\* the caller's document after localizeData(data, lang) has returned: the
\* function assigns only to its own result object and to the array map() makes
dataAfterLocalize(data, lng) == data

(* The documents the localizer is given *)

Keys == {"en", "nl", "k"}
Scalars == {Str("a"), Str("b"), Null}
Lists(S, n) == {Arr(q) : q \in UNION {[1..m -> S] : m \in 0..n}}
Objects(S, K) == {Obj(f) : f \in UNION {[D -> S] : D \in K}}
UpToTwo(K) == {D \in SUBSET K : Cardinality(D) <= 2}

\* scalars, lists of scalars, objects of scalars
Flat == Scalars \cup Lists(Scalars, MaxLen) \cup Objects(Scalars, SUBSET Keys)
\* lists and objects of those, and objects whose one value is nested deeper
Nested == Lists(Flat, 1) \cup Objects(Flat, UpToTwo(Keys))
Deep == Objects(Lists(Flat, 1) \cup Objects(Flat, {{k} : k \in Keys}),
                {{k} : k \in Keys})
DocSet == Flat \cup Nested \cup Deep

LocalizeInit ==
    /\ input \in DocSet
    /\ lang \in Langs
    /\ output = <<>>
    /\ ServerIdle
    /\ RendererIdle
    /\ JobsIdle
    /\ BuilderIdle
    /\ ClientIdle

\* const localized = localizeData(data, lang)
Localize ==
    /\ output = <<>>
    /\ output' = <<localizeData(input, lang)>>
    /\ input' = dataAfterLocalize(input, lang)
    /\ UNCHANGED <<lang, serverVars, rendererVars, jobVars, builderVars, clientVars>>

\* localizeData applied to a document that localizeData returned
LocalizeAgain ==
    /\ Len(output) = 1
    /\ output' = Append(output, localizeData(output[1], lang))
    /\ UNCHANGED <<input, lang, serverVars, rendererVars, jobVars, builderVars, clientVars>>

LocalizeNext == Localize \/ LocalizeAgain

SpecLocalize == LocalizeInit /\ [][LocalizeNext]_vars

----------------------------------------------------------------------------
(* Claims about the localizer *)

IsText(x) ==
    \/ x.t = "string"
    \/ x.t = "array" /\ \A i \in 1..Len(x.v) : x.v[i].t = "string"

\* a bilingual node: both language keys hold a string or a list of strings
IsBilingual(d) ==
    /\ d.t = "object"
    /\ Langs \subseteq DOMAIN d.v
    /\ \A l \in Langs : IsText(d.v[l])

\* the object has a direct key lng whose value is a string or a list
Resolvable(d, lng) ==
    d.t = "object" /\ lng \in DOMAIN d.v /\ d.v[lng].t \in {"string", "array"}

RECURSIVE BilingualResolved(_, _, _)
\* r holds, at the place of every bilingual node of d that the walk reaches
\* (no object around it is itself resolved), the node's value for lng
BilingualResolved(d, r, lng) ==
    IF d.t = "array"
        THEN /\ r.t = "array" /\ Len(r.v) = Len(d.v)
             /\ \A i \in 1..Len(d.v) : BilingualResolved(d.v[i], r.v[i], lng)
    ELSE IF d.t = "object"
        THEN IF IsBilingual(d) THEN r = d.v[lng]
             ELSE IF Resolvable(d, lng) THEN TRUE
             ELSE /\ r.t = "object" /\ DOMAIN r.v = DOMAIN d.v
                  /\ \A k \in DOMAIN d.v : BilingualResolved(d.v[k], r.v[k], lng)
    ELSE TRUE

\* C5: for each of the two languages, localizeData returns, for every
\* bilingual node (both keys holding a string or a list of strings), exactly
\* the value stored under the language, wherever in the document the walk
\* meets the node.
C5_BilingualNodeResolved ==
    Len(output) >= 1 => BilingualResolved(input, output[1], lang)

\* C5 witness: a bilingual node with two different texts, inside a list
\* inside an object, has been localized for nl
C5_Witness ==
    /\ Len(output) >= 1 /\ lang = "nl"
    /\ input.t = "object" /\ DOMAIN input.v = {"k"}
    /\ input.v["k"].t = "array" /\ Len(input.v["k"].v) = 1
    /\ IsBilingual(input.v["k"].v[1])
    /\ input.v["k"].v[1].v["nl"].t = "string"
    /\ input.v["k"].v[1].v["nl"] # input.v["k"].v[1].v["en"]
    /\ output[1] = Obj([k \in {"k"} |-> Arr(<<input.v["k"].v[1].v["nl"]>>)])

RECURSIVE FollowsRule(_, _, _)
\* r is d resolved by the structural rule
FollowsRule(d, r, lng) ==
    IF d.t = "object"
        THEN IF Resolvable(d, lng) THEN r = d.v[lng]
             ELSE /\ r.t = "object" /\ DOMAIN r.v = DOMAIN d.v
                  /\ \A k \in DOMAIN d.v : FollowsRule(d.v[k], r.v[k], lng)
    ELSE IF d.t = "array"
        THEN /\ r.t = "array" /\ Len(r.v) = Len(d.v)
             /\ \A i \in 1..Len(d.v) : FollowsRule(d.v[i], r.v[i], lng)
    ELSE r = d

\* C6: at every object level, an object with a direct key equal to the
\* target language holding a string or a list resolves to that value and the
\* walk stops; any other object resolves to an object with the same keys,
\* each value resolved in turn (lists item by item, scalars unchanged). A
\* node without the target language key never resolves to the value of the
\* other language.
C6_StructuralRule ==
    Len(output) >= 1 =>
        /\ FollowsRule(input, output[1], lang)
        /\ \A o \in Langs :
              (input.t = "object" /\ lang \notin DOMAIN input.v
                    /\ o \in DOMAIN input.v /\ IsText(input.v[o]))
                 => output[1] # input.v[o]

\* C6 witness: an object whose key k holds a node with a Dutch text only has
\* been localized for en, and came out as it went in
C6_Witness ==
    /\ Len(output) >= 1 /\ lang = "en"
    /\ input.t = "object" /\ "k" \in DOMAIN input.v
    /\ input.v["k"].t = "object" /\ DOMAIN input.v["k"].v = {"nl"}
    /\ input.v["k"].v["nl"].t = "string"
    /\ output[1] = input

RECURSIVE HasKey(_, _)
\* some object of d, at any depth, has the key lng
HasKey(d, lng) ==
    IF d.t = "object"
        THEN lng \in DOMAIN d.v \/ \E k \in DOMAIN d.v : HasKey(d.v[k], lng)
    ELSE IF d.t = "array" THEN \E i \in 1..Len(d.v) : HasKey(d.v[i], lng)
    ELSE FALSE

RECURSIVE NoKeyUnderKey(_, _)
\* no value stored under the key lng contains the key lng itself
NoKeyUnderKey(d, lng) ==
    IF d.t = "object"
        THEN /\ lng \in DOMAIN d.v => ~HasKey(d.v[lng], lng)
             /\ \A k \in DOMAIN d.v : NoKeyUnderKey(d.v[k], lng)
    ELSE IF d.t = "array" THEN \A i \in 1..Len(d.v) : NoKeyUnderKey(d.v[i], lng)
    ELSE TRUE

\* C8 (as claimed): for any document, localizing the localized document
\* gives the localized document again.
C8_Idempotent == Len(output) = 2 => output[2] = output[1]

\* C8 (amended): for any document in which no value stored under the key
\* lang itself contains the key lang, localizing the localized document
\* gives the localized document again.
C8_IdempotentUnlessNested ==
    (Len(output) = 2 /\ NoKeyUnderKey(input, lang)) => output[2] = output[1]

\* C8 witness: a document whose key lang holds an object (as the translation
\* tables do) and that localization changes has been localized twice
C8_Witness ==
    /\ Len(output) = 2 /\ NoKeyUnderKey(input, lang)
    /\ input.t = "object" /\ lang \in DOMAIN input.v
    /\ input.v[lang].t = "object" /\ input.v[lang].v # <<>>
    /\ output[1] # input
    /\ output[2] = output[1]

----------------------------------------------------------------------------
(* The editor service: GET /api/data and POST /api/data *)

\* a mutant of LoopFree: the handler awaits between its steps
LoopFreeAsync(q) == TRUE

\* The handlers are synchronous: once a handler has started, no other
\* handler runs before it has returned.
LoopFree(q) == \A o \in reqs \ {q} : o.pc \notin {"prune", "write"}

ServerInit ==
    /\ clock = FirstTick
    /\ dataFile \in {NoFile, "docA"}
    /\ backups = [t \in {} |-> NoFile]
    /\ reqs = {}
    /\ resp = NoResp
    /\ hist = [hadDoc |-> dataFile # NoFile, okSaves |-> 0, faults |-> 0,
               lastDone |-> NoFile, newestGone |-> 0]
    /\ LocalizerIdle
    /\ RendererIdle
    /\ JobsIdle
    /\ BuilderIdle
    /\ ClientIdle

\* a client's POST /api/data reaches the service; express.json() parses it
Arrive(b) ==
    /\ Cardinality(reqs) < MaxInFlight
    /\ hist.okSaves + Cardinality(reqs) < MaxSaves
    /\ [pc |-> "sent", body |-> b] \notin reqs
    /\ reqs' = reqs \cup {[pc |-> "sent", body |-> b]}
    /\ resp' = NoResp
    /\ UNCHANGED <<clock, dataFile, backups, hist>>

\* the handler of q moves on to its next step
Goto(q, step) == reqs' = (reqs \ {q}) \cup {[q EXCEPT !.pc = step]}

\* The history of a run: hadDoc, whether the document existed when the
\* service started; okSaves, the saves answered 200; faults, the file-system
\* failures; lastDone, the body of the save handled last, or Failed when that
\* save was answered 500; newestGone, the newest timestamp among the backups
\* unlinked so far (0 when there is none).
Finished(h, q, ok) ==
    [h EXCEPT !.okSaves = IF ok THEN @ + 1 ELSE @,
              !.faults = IF ok THEN @ ELSE @ + 1,
              !.lastDone = IF ok THEN q.body ELSE Failed]

Gone(D) ==
    [hist EXCEPT !.newestGone =
        IF D = {} THEN @
        ELSE LET m == CHOOSE x \in D : \A y \in D : y <= x
             IN  IF m > @ THEN m ELSE @]

\* the handler returns: the response is sent and the request is over
Respond(h, q, ok) ==
    /\ reqs' = reqs \ {q}
    /\ resp' = [op |-> "save", code |-> IF ok THEN 200 ELSE 500, doc |-> NoFile,
                 msg |-> IF ok THEN "Data saved successfully" ELSE "Failed to save data"]
    /\ hist' = Finished(h, q, ok)

\* the content copyFileSync(DATA_FILE, backupPath) gives the backup file
CopyOf(content) == content

\* the content writeFileSync leaves when it succeeds:
\* JSON.stringify(data, null, 2) of the parsed body, the whole document
SaveWritten(b) == b

\* server.js 89-94: the handler starts; the stored document is copied to
\* cv_data_backup_<Date.now()>.json when it exists. Date.now() is the
\* millisecond of the previous reading or a later one.
SaveBackup(q) ==
    /\ q.pc = "sent"
    /\ LoopFree(q)
    /\ UNCHANGED dataFile
    /\ \/ /\ dataFile = NoFile
          /\ Goto(q, "write")
          /\ resp' = NoResp
          /\ UNCHANGED <<clock, backups, hist>>
       \/ /\ dataFile # NoFile
          /\ \E now \in {clock, clock + 1} :
                /\ now <= FirstTick + MaxTicks
                /\ clock' = now
                /\ backups' = [t \in (DOMAIN backups) \cup {now} |->
                                  IF t = now THEN CopyOf(dataFile)
                                  ELSE backups[t]]
          /\ Goto(q, "prune")
          /\ resp' = NoResp
          /\ UNCHANGED hist
       \/ \* copyFileSync throws; the destination is not left behind
          /\ dataFile # NoFile
          /\ hist.faults < MaxFaults
          /\ Respond(hist, q, FALSE)
          /\ UNCHANGED <<clock, backups>>

\* server.js 97-105: all backups beyond the 5 newest names are unlinked
SavePrune(q) ==
    /\ q.pc = "prune"
    /\ LoopFree(q)
    /\ UNCHANGED <<clock, dataFile>>
    /\ LET del == ToDelete(DOMAIN backups) IN
       \/ /\ backups' = Unlinked(Range(del))
          /\ Goto(q, "write")
          /\ resp' = NoResp
          /\ hist' = Gone(Range(del))
       \/ \* readdirSync throws
          /\ hist.faults < MaxFaults
          /\ Respond(hist, q, FALSE)
          /\ UNCHANGED backups
       \/ \* unlinkSync throws at the j-th backup to delete
          /\ hist.faults < MaxFaults
          /\ \E j \in 1..Len(del) :
                LET done == {del[i] : i \in 1..(j - 1)} IN
                /\ backups' = Unlinked(done)
                /\ Respond(Gone(done), q, FALSE)

\* server.js 108-110: the document is replaced and the success response sent
SaveWrite(q) ==
    /\ q.pc = "write"
    /\ LoopFree(q)
    /\ UNCHANGED <<clock, backups>>
    /\ \/ /\ dataFile' = SaveWritten(q.body)
          /\ Respond(hist, q, TRUE)
       \/ \* writeFileSync throws before the file is opened for writing
          /\ hist.faults < MaxFaults
          /\ UNCHANGED dataFile
          /\ Respond(hist, q, FALSE)
       \/ \* writeFileSync throws after the file was truncated (flag 'w')
          /\ hist.faults < MaxFaults
          /\ dataFile' = Truncated
          /\ Respond(hist, q, FALSE)

\* server.js 75-79: the response to GET /api/data for a content of the file
Fetched(content) ==
    IF content = NoFile
        THEN [op |-> "get", code |-> 404, doc |-> NoFile, msg |-> "Data file not found"]
    ELSE IF content = Truncated   \* JSON.parse throws
        THEN [op |-> "get", code |-> 500, doc |-> NoFile,
              msg |-> "Failed to read data file"]
    ELSE [op |-> "get", code |-> 200, doc |-> content, msg |-> ""]

\* server.js 73-84: GET /api/data
GetData ==
    /\ \A o \in reqs : o.pc \notin {"prune", "write"}
    /\ resp' = Fetched(dataFile)
    /\ UNCHANGED <<clock, dataFile, backups, reqs, hist>>

ServerNext ==
    \/ \E b \in Docs : Arrive(b) /\ UNCHANGED <<localizerVars, rendererVars, jobVars, builderVars, clientVars>>
    \/ \E q \in reqs : SaveBackup(q) /\ UNCHANGED <<localizerVars, rendererVars, jobVars, builderVars, clientVars>>
    \/ \E q \in reqs : SavePrune(q) /\ UNCHANGED <<localizerVars, rendererVars, jobVars, builderVars, clientVars>>
    \/ \E q \in reqs : SaveWrite(q) /\ UNCHANGED <<localizerVars, rendererVars, jobVars, builderVars, clientVars>>
    \/ GetData /\ UNCHANGED <<localizerVars, rendererVars, jobVars, builderVars, clientVars>>

Spec == ServerInit /\ [][ServerNext]_vars

----------------------------------------------------------------------------
(* Claims about the editor service *)

Running == {q \in reqs : q.pc \in {"prune", "write"}}

SavedOk == resp.op = "save" /\ resp.code = 200

\* C1: when a save has been answered with success, at most 5 backup files
\* exist and every backup that is left is newer than every backup that was
\* ever deleted: no backup was deleted while an older one is kept.
C1_BackupsKeptAreNewest ==
    SavedOk =>
        /\ Cardinality(DOMAIN backups) <= KeepBackups
        /\ \A k \in DOMAIN backups : k > hist.newestGone

\* C1 witness: a save has just succeeded, it left exactly 5 backups and an
\* older backup has been deleted
C1_Witness ==
    /\ SavedOk
    /\ Cardinality(DOMAIN backups) = KeepBackups
    /\ hist.newestGone >= FirstTick

\* C2 (as claimed): starting from an existing document and no backups, k
\* saves in succession, all answered with success, leave exactly min(k, 5)
\* backup files.
C2_SavesLeaveMinBackups ==
    (hist.hadDoc /\ hist.faults = 0 /\ reqs = {}) =>
        Cardinality(DOMAIN backups) = Min(hist.okSaves, KeepBackups)

\* C3 (as claimed): the stored document is never partially written; after a
\* save answered with success it is the request's body as a whole, and a
\* fetch returns a complete document.
C3_NeverPartiallyWritten ==
    /\ dataFile # Truncated
    /\ SavedOk => dataFile = hist.lastDone
    /\ (resp.op = "get" /\ resp.code = 200) => resp.doc \in Docs

\* C4: the handlers of concurrent saves are not interleaved: at most one is
\* between its first and its last step; while none is, the stored document
\* is the body of the save handled last (when that save succeeded); and the
\* backup a save has just taken holds the body written by the save handled
\* just before it (when that save succeeded).
C4_LastWriteWins ==
    /\ Cardinality(Running) <= 1
    /\ (Running = {} /\ hist.lastDone \in Docs) => dataFile = hist.lastDone
    /\ \A q \in reqs :
          (q.pc = "prune" /\ hist.lastDone \in Docs) =>
              /\ clock \in DOMAIN backups
              /\ backups[clock] = hist.lastDone

\* C4 witness: two saves with different bodies are in flight; the handler of
\* one has taken its backup after an earlier save succeeded, the other waits
C4_Witness ==
    \E q \in reqs, o \in reqs :
        /\ q.pc = "prune" /\ o.pc = "sent" /\ q.body # o.body
        /\ hist.lastDone \in Docs /\ hist.lastDone # q.body
        /\ backups[clock] = hist.lastDone

----------------------------------------------------------------------------
(* The renderers: renderTemplate (site pages) and renderHTML (preview, PDF) *)

\* length of the presentations list of a document
MaxPres == 3
\* length of the record list of another section of a document
MaxEntries == 3

Bool(b) == [t |-> "boolean", v |-> b]
Num(n) == [t |-> "number", v |-> n]
Undefined == [t |-> "undefined", v |-> 0]

\* o[k]
Get(o, k) == IF o.t = "object" /\ k \in DOMAIN o.v THEN o.v[k] ELSE Undefined
\* o after o[k] = x
Set(o, k, x) == Obj([j \in DOMAIN o.v \cup {k} |-> IF j = k THEN x ELSE o.v[j]])
\* ToBoolean(x)
Truthy(x) ==
    CASE x.t \in {"undefined", "null"} -> FALSE
      [] x.t = "boolean" -> x.v
      [] x.t = "number" -> x.v # 0
      [] x.t = "string" -> x.v # ""
      [] OTHER -> TRUE
\* a || b
OrElse(a, b) == IF Truthy(a) THEN a ELSE b

\* the characters of the texts that occur in the documents of the model
Chars(s) ==
    CASE s = "" -> <<>>
      [] s = "TBA" -> <<"T", "B", "A">>
      [] s = "2024" -> <<"2", "0", "2", "4">>
      [] s = "September 2025" ->
            <<"S", "e", "p", "t", "e", "m", "b", "e", "r", " ", "2", "0", "2", "5">>
      [] s = "12 May 2025" ->
            <<"1", "2", " ", "M", "a", "y", " ", "2", "0", "2", "5">>
      [] s = "2025" -> <<"2", "0", "2", "5">>
      [] s = "2020" -> <<"2", "0", "2", "0">>
      [] s = "2023" -> <<"2", "0", "2", "3">>
      [] s = "Other" -> <<"O", "t", "h", "e", "r">>
      [] s = "photo.jpg" -> <<"p", "h", "o", "t", "o", ".", "j", "p", "g">>
      [] s = "01052024" -> <<"0", "1", "0", "5", "2", "0", "2", "4">>
      [] s = "02052024" -> <<"0", "2", "0", "5", "2", "0", "2", "4">>
      [] s = "0105" -> <<"0", "1", "0", "5">>
      [] s = "0205" -> <<"0", "2", "0", "5">>

DigitChars == {"0", "1", "2", "3", "4", "5", "6", "7", "8", "9"}
DigitValue(c) ==
    CASE c = "0" -> 0 [] c = "1" -> 1 [] c = "2" -> 2 [] c = "3" -> 3
      [] c = "4" -> 4 [] c = "5" -> 5 [] c = "6" -> 6 [] c = "7" -> 7
      [] c = "8" -> 8 [] c = "9" -> 9

RECURSIVE Decimal(_)
\* the number a sequence of digits denotes
Decimal(c) ==
    IF c = <<>> THEN 0
    ELSE 10 * Decimal(SubSeq(c, 1, Len(c) - 1)) + DigitValue(c[Len(c)])

\* a JavaScript number: an integer or NaN
NaN == [nan |-> TRUE, n |-> 0]
Int32(n) == [nan |-> FALSE, n |-> n]
\* a - b
Minus(a, b) == IF a.nan \/ b.nan THEN NaN ELSE Int32(a.n - b.n)

\* ToNumber(s) of a string: digits only (or empty) in the model's texts
ToNumber(s) ==
    LET c == Chars(s)
    IN  IF \A i \in 1..Len(c) : c[i] \in DigitChars THEN Int32(Decimal(c)) ELSE NaN

\* the length of the longest prefix of c made of digits
DigitPrefix(c) ==
    LET stops == {i \in 1..Len(c) : c[i] \notin DigitChars}
    IN  IF stops = {} THEN Len(c) ELSE (CHOOSE i \in stops : \A j \in stops : i <= j) - 1

\* parseInt(x) of a number or a string (no sign or blanks in the model's texts)
ParseInt(x) ==
    CASE x.t = "number" -> Int32(x.v)
      [] x.t = "string" ->
            LET c == Chars(x.v)
                n == DigitPrefix(c)
            IN  IF n = 0 THEN NaN ELSE Int32(Decimal(SubSeq(c, 1, n)))
      [] OTHER -> NaN

\* s.match(/\d{4}/): the leftmost four digits in a row ([0] of the match),
\* or null
MatchYear(s) ==
    LET c == Chars(s)
        at == {i \in 1..(Len(c) - 3) : \A j \in 0..3 : c[i + j] \in DigitChars}
    IN  IF at = {} THEN Null
        ELSE LET i == CHOOSE m \in at : \A n \in at : m <= n
             IN  Str(c[i] \o c[i + 1] \o c[i + 2] \o c[i + 3])

\* Array.prototype.sort(comparefn) of Node's engine for arrays shorter than
\* 64: one run is counted (and reversed if strictly descending), the rest is
\* inserted by binary insertion. The elements are [item, num] and both
\* comparefns of the renderer are (a, b) => num(b) - num(a); a NaN result
\* counts as 0.
SortCompare(x, y) ==
    LET d == Minus(y.num, x.num) IN IF d.nan THEN 0 ELSE d.n

RECURSIVE RunLength(_, _, _)
\* the end of the run of a that starts at a[1]; a[idx] is looked at next
RunLength(a, descending, idx) ==
    IF idx > Len(a) THEN Len(a)
    ELSE LET order == SortCompare(a[idx], a[idx - 1])
         IN  IF (descending /\ order >= 0) \/ (~descending /\ order < 0)
                 THEN idx - 1
             ELSE RunLength(a, descending, idx + 1)

CountAndMakeRun(a) ==
    LET descending == SortCompare(a[2], a[1]) < 0
        n == RunLength(a, descending, 3)
    IN  [len |-> n,
         arr |-> IF descending
                     THEN Reverse(SubSeq(a, 1, n)) \o SubSeq(a, n + 1, Len(a))
                 ELSE a]

RECURSIVE BinarySearch(_, _, _, _)
\* where pivot goes among a[left+1 .. right]
BinarySearch(a, pivot, left, right) ==
    IF left >= right THEN left
    ELSE LET mid == left + ((right - left) \div 2)
         IN  IF SortCompare(pivot, a[mid + 1]) < 0
                 THEN BinarySearch(a, pivot, left, mid)
             ELSE BinarySearch(a, pivot, mid + 1, right)

RECURSIVE BinaryInsertionSort(_, _)
\* a[1 .. start] is sorted; insert the elements after it one by one
BinaryInsertionSort(a, start) ==
    IF start >= Len(a) THEN a
    ELSE LET pivot == a[start + 1]
             left == BinarySearch(a, pivot, 0, start)
         IN  BinaryInsertionSort(
                 SubSeq(a, 1, left) \o <<pivot>> \o SubSeq(a, left + 1, start)
                     \o SubSeq(a, start + 2, Len(a)),
                 start + 1)

ArraySort(a) ==
    IF Len(a) < 2 THEN a
    ELSE LET run == CountAndMakeRun(a)
         IN  IF run.len < Len(a) THEN BinaryInsertionSort(run.arr, run.len)
             ELSE run.arr

Items(a) == [i \in 1..Len(a) |-> a[i].item]

\* a mutant of Skipped: hidden presentations are grouped too
SkippedNever(pres) == FALSE

\* pres.visible === false
Skipped(pres) ==
    LET x == Get(pres, "visible") IN x.t = "boolean" /\ x.v = FALSE

\* yearMatch ? yearMatch[0] : 'Other', with
\* yearMatch = pres.date ? pres.date.match(/\d{4}/) : null
YearOf(pres) ==
    LET date == Get(pres, "date")
        yearMatch == IF Truthy(date) THEN MatchYear(date.v) ELSE Null
    IN  IF yearMatch.t = "string" THEN yearMatch.v ELSE "Other"

\* a mutant of Push: the presentation is put in front of its group
PushFront(grouped, year, pres) ==
    LET had == year \in Range(grouped.order)
        order == IF had THEN grouped.order ELSE Append(grouped.order, year)
    IN  [order |-> order,
         items |-> [k \in Range(order) |->
                       IF k = year
                           THEN <<pres>> \o (IF had THEN grouped.items[k] ELSE <<>>)
                       ELSE grouped.items[k]]]

\* if (!grouped[year]) grouped[year] = []; grouped[year].push(pres);
\* grouped is the groups by key and the order in which the keys were created
Push(grouped, year, pres) ==
    LET had == year \in Range(grouped.order)
        order == IF had THEN grouped.order ELSE Append(grouped.order, year)
    IN  [order |-> order,
         items |-> [k \in Range(order) |->
                       IF k = year
                           THEN Append(IF had THEN grouped.items[k] ELSE <<>>, pres)
                       ELSE grouped.items[k]]]

RECURSIVE GroupByYear(_, _)
\* the loop over localized.presentations
GroupByYear(list, grouped) ==
    IF list = <<>> THEN grouped
    ELSE LET pres == Head(list)
         IN  IF Skipped(pres) THEN GroupByYear(Tail(list), grouped)
             ELSE GroupByYear(Tail(list), Push(grouped, YearOf(pres), pres))

\* the key is an array index: a canonical decimal numeral
IsArrayIndex(k) ==
    LET c == Chars(k)
    IN  /\ c # <<>>
        /\ \A i \in 1..Len(c) : c[i] \in DigitChars
        /\ (Len(c) = 1 \/ c[1] # "0")

RECURSIVE Ascending(_)
\* the array-index keys of S in ascending numeric order
Ascending(S) ==
    IF S = {} THEN <<>>
    ELSE LET k == CHOOSE m \in S : \A o \in S : ToNumber(m).n <= ToNumber(o).n
         IN  <<k>> \o Ascending(S \ {k})

\* Object.keys(grouped): array indices ascending, then the other keys in the
\* order of their creation
ObjectKeys(grouped) ==
    Ascending({k \in Range(grouped.order) : IsArrayIndex(k)})
        \o SelectSeq(grouped.order, LAMBDA k : ~IsArrayIndex(k))

\* Object.keys(grouped).sort((a, b) => b - a).map(year => ({year, items}))
PresentationsByYear(list) ==
    LET grouped == GroupByYear(list, [order |-> <<>>, items |-> <<>>])
        keys == ObjectKeys(grouped)
        sorted == Items(ArraySort([i \in 1..Len(keys) |->
                      [item |-> keys[i], num |-> ToNumber(keys[i])]]))
    IN  Arr([i \in 1..Len(sorted) |->
                Obj([year |-> Str(sorted[i]), items |-> Arr(grouped.items[sorted[i]])])])

\* [...list].sort(sortByYear), sortByYear = (a, b) =>
\* parseInt(b.year || 0) - parseInt(a.year || 0)
SortByYear(list) ==
    Items(ArraySort([i \in 1..Len(list) |->
        [item |-> list[i],
         num |-> ParseInt(OrElse(Get(list[i], "year"), Num(0)))]]))

\* if (publications[cat]) publications[cat] = [...publications[cat]].sort(..)
SortCategory(pubs, cat) ==
    LET list == Get(pubs, cat)
    IN  IF Truthy(list) THEN Set(pubs, cat, Arr(SortByYear(list.v))) ELSE pubs

\* the object renderTemplate hands to env.render
SiteContext(data, lng) ==
    LET localized == localizeData(data, lng)
        tr == Get(data, "translations")
        c1 == Set(localized, "t", OrElse(Get(tr, lng), Get(tr, "en")))
        c2 == Set(c1, "lang", Str(lng))
        c3 == Set(c2, "visibility", OrElse(Get(data, "sectionVisibility"), Obj(<<>>)))
        c4 == Set(c3, "basePath", Str(IF lng = "en" THEN "" ELSE ".."))
        c5 == Set(c4, "altLang", Str(IF lng = "en" THEN "nl" ELSE "en"))
        c6 == Set(c5, "altLangLabel", Str(IF lng = "en" THEN "Nederlands" ELSE "English"))
        pres == Get(c6, "presentations")
        c7 == IF Truthy(pres)
                  THEN Set(c6, "presentationsByYear", PresentationsByYear(pres.v))
              ELSE c6
        pubs == Get(c7, "publications")
    IN  IF Truthy(pubs)
            THEN Set(c7, "publications",
                     SortCategory(SortCategory(SortCategory(pubs, "books"),
                                               "book_chapters"), "articles"))
        ELSE c7

SectionNames == {"profile", "experience", "education", "teaching", "publications",
                 "media_summary", "languages", "hobbies", "references"}

\* data.personal.photo.startsWith('data:')
StartsWithData(s) ==
    LET c == Chars(s) IN Len(c) >= 5 /\ SubSeq(c, 1, 5) = <<"d", "a", "t", "a", ":">>

\* the object renderHTML hands to env.render; found: the photo file exists
PreviewContext(rawData, lng, found) ==
    LET data == localizeData(rawData, lng)
        tr == Get(rawData, "translations")
        d1 == Set(data, "t", OrElse(Get(tr, lng), Get(tr, "en")))
        d2 == Set(d1, "lang", Str(lng))
        d3 == Set(d2, "visibility",
                  OrElse(Get(rawData, "sectionVisibility"),
                         Obj([s \in SectionNames |-> Bool(TRUE)])))
        personal == Get(d3, "personal")
        photo == Get(personal, "photo")
    IN  IF Truthy(personal) /\ Truthy(photo) /\ ~StartsWithData(photo.v) /\ found
            THEN Set(d3, "personal",
                     Set(personal, "photo", Str("data:image/jpeg;base64")))
        ELSE d3

\* The page templates (templates/*.html) list the records of each section.
\* A record whose visible flag is false is left out.
Hidden(record) ==
    LET x == Get(record, "visible") IN x.t = "boolean" /\ x.v = FALSE

\* the records of a list that a template lists
Listed(list) ==
    IF list.t = "array" THEN SelectSeq(list.v, LAMBDA r : ~Hidden(r)) ELSE <<>>

RECURSIVE GroupItems(_)
\* the presentations of the groups, group after group
GroupItems(groups) ==
    IF groups = <<>> THEN <<>>
    ELSE Get(Head(groups), "items").v \o GroupItems(Tail(groups))

Sections == {"experience", "education", "references"}
Categories == {"books", "book_chapters", "articles", "reports"}

\* what env.render puts on the page from the context: for each section the
\* records listed, in order. Presentations are listed group by group where
\* the context has presentationsByYear.
Template(context) ==
    [s \in Sections \cup Categories \cup {"presentations"} |->
        IF s \in Sections THEN Listed(Get(context, s))
        ELSE IF s \in Categories
            THEN Listed(Get(Get(context, "publications"), s))
        ELSE IF Get(context, "presentationsByYear").t = "array"
            THEN GroupItems(Get(context, "presentationsByYear").v)
        ELSE Listed(Get(context, "presentations"))]

\* the documents handed to the renderers
Flags == {"true", "false", "absent"}
DateTexts == {"", "TBA", "2024", "September 2025", "12 May 2025"}
Dates == DateTexts \cup {"absent"}
\* flag and date of a presentation: the loop tests the flag and reads the
\* date in separate statements, so the presentations with visible: true take
\* every date, the hidden ones two dates and the unflagged ones one
PresKinds ==
    ({"true"} \X Dates)
        \cup ({"false"} \X {"2024", "absent"})
        \cup ({"absent"} \X {"September 2025"})

Title(kind, i) == Obj([l \in Langs |-> Str(kind \o " " \o ToString(i) \o " " \o l)])

Flagged(record, flag) ==
    IF flag = "absent" THEN record ELSE Set(record, "visible", Bool(flag = "true"))

Presentation(i, flag, date) ==
    LET record == Flagged(Obj([title |-> Title("talk", i)]), flag)
    IN  IF date = "absent" THEN record ELSE Set(record, "date", Str(date))

\* the year of the i-th publication of a list: 2020, 2023, none
YearAt(i) == CASE i = 1 -> "2020" [] i = 2 -> "2023" [] OTHER -> "absent"

Entry(place, i, flag) ==
    LET record == Flagged(Obj([title |-> Title(place, i)]), flag)
    IN  IF place \in Categories /\ YearAt(i) # "absent"
            THEN Set(record, "year", Str(YearAt(i)))
        ELSE record

BaseDoc ==
    Obj([translations |-> Obj([l \in Langs |-> Obj([cv |-> Str("cv " \o l)])]),
         experience |-> Arr(<<>>),
         education |-> Arr(<<>>),
         references |-> Arr(<<>>),
         publications |-> Obj([c \in Categories |-> Arr(<<>>)])])

\* documents with presentations
PresDocs ==
    {Set(BaseDoc, "presentations",
         Arr([i \in 1..Len(p) |-> Presentation(i, p[i][1], p[i][2])])) :
        p \in UNION {[1..n -> PresKinds] : n \in 0..MaxPres}}

WithEntries(doc, place, list) ==
    IF place \in Categories
        THEN Set(doc, "publications", Set(Get(doc, "publications"), place, Arr(list)))
    ELSE Set(doc, place, Arr(list))

\* documents with a photo and records in one of the other sections
EntryDocs ==
    {WithEntries(Set(BaseDoc, "personal", Obj([photo |-> Str("photo.jpg")])), place,
                 [i \in 1..Len(f) |-> Entry(place, i, f[i])]) :
        place \in Sections \cup Categories,
        f \in UNION {[1..n -> Flags] : n \in 1..MaxEntries}}

\* dates written as ddmmyyyy, beside a year alone and no date
CompactDates == {"01052024", "02052024", "2024", "absent"}

\* documents with presentations dated that way
CompactDocs ==
    {Set(BaseDoc, "presentations",
         Arr([i \in 1..Len(p) |-> Presentation(i, "true", p[i])])) :
        p \in UNION {[1..n -> CompactDates] : n \in 1..MaxPres}}

CvDocs == {BaseDoc} \cup PresDocs \cup EntryDocs \cup CompactDocs

TemplateNames == {"portfolio_home.html", "portfolio_cv.html",
                  "portfolio_publications.html", "portfolio_presentations.html"}

RenderInit ==
    /\ cv \in CvDocs
    /\ page = NoPage
    /\ lang \in Langs
    /\ input = Null
    /\ output = <<>>
    /\ ServerIdle
    /\ JobsIdle
    /\ BuilderIdle
    /\ ClientIdle

\* renderTemplate(env, templateName, data, lang)
RenderTemplate(templateName) ==
    /\ page.by = "none"
    /\ LET context == SiteContext(cv, lang)
       IN  page' = [by |-> "renderTemplate", template |-> templateName,
                    context |-> context, html |-> Template(context)]
    /\ UNCHANGED <<cv, serverVars, localizerVars, jobVars, builderVars, clientVars>>

\* renderHTML(rawData, templatePath, lang, baseDir)
RenderHTML ==
    /\ page.by = "none"
    /\ \E found \in BOOLEAN :
          LET context == PreviewContext(cv, lang, found)
          IN  page' = [by |-> "renderHTML", template |-> "cv_template.html",
                       context |-> context, html |-> Template(context)]
    /\ UNCHANGED <<cv, serverVars, localizerVars, jobVars, builderVars, clientVars>>

RenderNext ==
    \/ \E templateName \in TemplateNames : RenderTemplate(templateName)
    \/ RenderHTML

SpecRender == RenderInit /\ [][RenderNext]_vars

----------------------------------------------------------------------------
(* Claims about the renderers *)

Rendered == page.by # "none"

\* the records of the document's list at a place
RecordsAt(doc, place) ==
    LET list == IF place \in Categories THEN Get(Get(doc, "publications"), place)
                ELSE Get(doc, place)
    IN  IF list.t = "array" THEN list.v ELSE <<>>

VisiblePresentations ==
    SelectSeq(RecordsAt(localizeData(cv, lang), "presentations"),
              LAMBDA r : Get(r, "visible") # Bool(FALSE))

\* the group the claim names for a presentation
ClaimedGroup(pres) ==
    LET date == Get(pres, "date")
    IN  CASE date = Str("September 2025") -> "2025"
          [] date = Str("12 May 2025") -> "2025"
          [] date = Str("2024") -> "2024"
          [] date = Str("01052024") -> "0105"
          [] date = Str("02052024") -> "0205"
          [] OTHER -> "Other"

ByYear == Get(page.context, "presentationsByYear").v
YearOfGroup(g) == Get(g, "year").v
ItemsOfGroup(g) == Get(g, "items").v

\* C10: in the context renderTemplate builds, every presentation whose
\* visible flag is not false is in exactly one group of presentationsByYear,
\* the group of the first four digits in a row of its date, or "Other"
\* without a date or without four digits in a row; a group holds its
\* presentations in document order; no group is empty.
C10_PresentationsGrouped ==
    (page.by = "renderTemplate" /\ Get(cv, "presentations").t = "array") =>
        /\ \A i \in 1..Len(ByYear) :
              /\ ItemsOfGroup(ByYear[i]) # <<>>
              /\ ItemsOfGroup(ByYear[i]) =
                    SelectSeq(VisiblePresentations,
                              LAMBDA r : ClaimedGroup(r) = YearOfGroup(ByYear[i]))
              /\ \A j \in 1..Len(ByYear) :
                    YearOfGroup(ByYear[i]) = YearOfGroup(ByYear[j]) => i = j
        /\ \A k \in 1..Len(VisiblePresentations) :
              \E i \in 1..Len(ByYear) :
                  YearOfGroup(ByYear[i]) = ClaimedGroup(VisiblePresentations[k])

\* C10 witness: presentations dated "September 2025", "12 May 2025" and
\* without a date, none hidden, have been grouped into "2025" (two of them,
\* in document order) and "Other"
C10_Witness ==
    /\ page.by = "renderTemplate"
    /\ Len(RecordsAt(cv, "presentations")) = 3
    /\ Len(VisiblePresentations) = 3
    /\ Get(VisiblePresentations[1], "date") = Str("September 2025")
    /\ Get(VisiblePresentations[2], "date") = Undefined
    /\ Get(VisiblePresentations[3], "date") = Str("12 May 2025")
    /\ Len(ByYear) = 2
    /\ \E i \in 1..2 :
          /\ YearOfGroup(ByYear[i]) = "2025"
          /\ ItemsOfGroup(ByYear[i]) = <<VisiblePresentations[1], VisiblePresentations[3]>>
    /\ \E i \in 1..2 :
          /\ YearOfGroup(ByYear[i]) = "Other"
          /\ ItemsOfGroup(ByYear[i]) = <<VisiblePresentations[2]>>

\* the key of a group is a number: it is made of digits
NumericKey(g) == ~ToNumber(YearOfGroup(g)).nan

\* C11: the groups of presentationsByYear are in descending order of year:
\* of any two groups with numeric keys the one with the larger year comes
\* first, also when a group "Other" is among the groups.
C11_GroupsSortedDescending ==
    (page.by = "renderTemplate" /\ Get(cv, "presentations").t = "array") =>
        \A i, j \in 1..Len(ByYear) :
            (i < j /\ NumericKey(ByYear[i]) /\ NumericKey(ByYear[j])) =>
                ToNumber(YearOfGroup(ByYear[i])).n > ToNumber(YearOfGroup(ByYear[j])).n

\* C11 holds where every numeric key is an array index (a year without a
\* leading zero): Object.keys lists those first
C11_SortedWhenKeysAreIndices ==
    (page.by = "renderTemplate" /\ Get(cv, "presentations").t = "array"
        /\ \A i \in 1..Len(ByYear) :
              NumericKey(ByYear[i]) => IsArrayIndex(YearOfGroup(ByYear[i]))) =>
        \A i, j \in 1..Len(ByYear) :
            (i < j /\ NumericKey(ByYear[i]) /\ NumericKey(ByYear[j])) =>
                ToNumber(YearOfGroup(ByYear[i])).n > ToNumber(YearOfGroup(ByYear[j])).n

\* the year of a publication as the claim counts it: a missing year is zero
ClaimedYear(record) ==
    LET year == Get(record, "year")
    IN  CASE year = Str("2020") -> 2020
          [] year = Str("2023") -> 2023
          [] OTHER -> 0

\* the list is in descending order of year
DescendingByYear(list) ==
    \A i, j \in 1..Len(list) : i < j => ClaimedYear(list[i]) >= ClaimedYear(list[j])

\* C12: in the context renderTemplate builds, the publications of each
\* category (books, book_chapters, articles, reports) are those of the
\* document, each once, in descending order of numeric year with a missing
\* year counted as zero: years 2020, 2023, missing come out as 2023, 2020,
\* missing.
C12_PublicationsSortedByYear ==
    page.by = "renderTemplate" =>
        \A cat \in Categories :
            LET sorted == RecordsAt(page.context, cat)
                source == RecordsAt(localizeData(cv, lang), cat)
            IN  /\ Len(sorted) = Len(source)
                /\ Range(sorted) = Range(source)
                /\ DescendingByYear(sorted)

\* C12 holds of the three categories renderTemplate names
C12_NamedCategoriesSorted ==
    page.by = "renderTemplate" =>
        \A cat \in {"books", "book_chapters", "articles"} :
            LET sorted == RecordsAt(page.context, cat)
                source == RecordsAt(localizeData(cv, lang), cat)
            IN  /\ Len(sorted) = Len(source)
                /\ Range(sorted) = Range(source)
                /\ DescendingByYear(sorted)

----------------------------------------------------------------------------
(* PDF export: generatePDF / generatePDFBuffer and their callers; the       *)
(* preview and upload handlers of the editor service                        *)

\* number of exports, previews and uploads in a run
MaxJobs == 2
\* number of engine operations that fail in a run
MaxEngineFaults == 1

\* a mutant of Steps: the PDF is captured before the markup is loaded
StepsCaptureEarly ==
    <<"launch", "newPage", "setViewport", "pdf", "setContent", "fontsReady",
      "delay", "close">>

\* the engine operations an export awaits, in the order of its statements
Steps ==
    <<"launch", "newPage", "setViewport", "setContent", "fontsReady",
      "delay", "pdf", "close">>

\* the operations that can reject (the delay is a timer)
Fallible == {"launch", "newPage", "setViewport", "setContent", "fontsReady", "pdf"}

NotInstalled == "puppeteer not installed. Run: npm install puppeteer"
MissingParameter == "Missing data or lang parameter"
\* the message of the error renderHTML throws on a document it cannot render
RenderError == "Cannot read properties of undefined"

\* who exports: a caller of the library function, the command line tool
\* (generate_cv.js), the editor service (POST /api/generate-pdf)
ExportKinds == {"library", "cli", "export"}

\* the request bodies of the editor service: a document and a language, one
\* of them missing, a document without translations
Bodies == {"ok", "no data", "no lang", "unrenderable"}

NoUpload == [field |-> "", mime |-> "", size |-> 0, ext |-> ""]

Job(kind, body, upload) ==
    [kind |-> kind, body |-> body, upload |-> upload, pc |-> "start",
     tries |-> 0, done |-> 0, log |-> <<>>, fault |-> "", browser |-> 0,
     sent |-> 0, code |-> 0, msg |-> "", result |-> "running", exit |-> -1,
     file |-> ""]

\* res.status(code).json({error: msg}) / res.send / res.end / res.json, and
\* the handler returns
Respond2(job, code, msg) ==
    [job EXCEPT !.pc = "end", !.sent = @ + 1, !.code = code, !.msg = msg,
                !.result = "returned"]

\* a mutant of Thrown: the export is started again after an error
ThrownRetry(job, msg) == [job EXCEPT !.pc = "start", !.msg = msg]

\* an error with message msg leaves the export function or renderHTML: the
\* library's caller gets it; main().catch of the command line tool logs it
\* and exits with 1; the handler's catch answers 500
Thrown(job, msg) ==
    CASE job.kind = "library" ->
            [job EXCEPT !.pc = "end", !.result = "thrown", !.msg = msg]
      [] job.kind = "cli" ->
            [job EXCEPT !.pc = "end", !.result = "exited", !.exit = 1,
                        !.msg = "Error: " \o msg]
      [] job.kind = "export" -> Respond2(job, 500, "Failed to generate PDF: " \o msg)
      [] job.kind = "preview" -> Respond2(job, 500, "Failed to render preview: " \o msg)

\* the export function returns
Returned(job) ==
    CASE job.kind = "library" -> [job EXCEPT !.pc = "end", !.result = "returned"]
      [] job.kind = "cli" ->
            [job EXCEPT !.pc = "end", !.result = "exited", !.exit = 0]
      [] job.kind = "export" -> Respond2(job, 200, "")

\* let puppeteer; try { puppeteer = require('puppeteer') } catch ...
\* then puppeteer.launch() is called and awaited
Required(job) ==
    IF puppeteer THEN [job EXCEPT !.pc = "engine", !.tries = @ + 1]
    ELSE Thrown([job EXCEPT !.tries = @ + 1], NotInstalled)

\* if (!data || !lang) return res.status(400).json(...); otherwise the
\* handler goes on as next
Validated(job, next) ==
    IF job.body \in {"no data", "no lang"}
        THEN Respond2(job, 400, MissingParameter)
    ELSE next

\* the part of an export or a preview that runs before its first await
Begun(job) ==
    CASE job.kind \in {"library", "cli"} -> Required(job)
      [] job.kind = "export" ->
            Validated(job, IF job.body = "unrenderable" THEN Thrown(job, RenderError)
                           ELSE Required(job))
      [] job.kind = "preview" ->
            Validated(job, IF job.body = "unrenderable" THEN Thrown(job, RenderError)
                           ELSE Respond2(job, 200, ""))

\* a save handler is in the middle of its synchronous statements
ServerBusy == \E o \in reqs : o.pc \in {"prune", "write"}

\* an export is called, or a request for one reaches the editor service
Start(kind, body) ==
    /\ Len(jobs) < MaxJobs
    /\ ~ServerBusy
    /\ jobs' = Append(jobs, Job(kind, body, NoUpload))
    /\ UNCHANGED <<puppeteer, browsers, photos>>

Begin(j) ==
    /\ jobs[j].pc = "start"
    /\ jobs[j].kind \in ExportKinds \cup {"preview"}
    /\ ~ServerBusy
    /\ jobs' = [jobs EXCEPT ![j] = Begun(@)]
    /\ UNCHANGED <<puppeteer, browsers, photos>>

\* the browser instances after the job's operation step has resolved
Launched(job, step) ==
    CASE step = "launch" -> Append(browsers, "open")
      [] step = "close" -> [browsers EXCEPT ![job.browser] = "closed"]
      [] OTHER -> browsers

\* the operation the export awaits resolves and the function goes on to its
\* next statement
EngineStep(j) ==
    /\ jobs[j].pc = "engine"
    /\ ~ServerBusy
    /\ LET job == jobs[j]
           step == Steps[job.done + 1]
           after == [job EXCEPT !.done = @ + 1, !.log = Append(@, step),
                                !.browser = IF step = "launch" THEN Len(browsers) + 1
                                            ELSE @]
       IN  /\ browsers' = Launched(job, step)
           /\ jobs' = [jobs EXCEPT ![j] = IF after.done = Len(Steps) THEN Returned(after)
                                          ELSE after]
    /\ UNCHANGED <<puppeteer, photos>>

EngineFaults == Cardinality({i \in 1..Len(jobs) : jobs[i].fault # ""})

\* the browser instances after the job's error has reached its caller: the
\* command line tool exits, and the engine kills the browser of a process
\* that exits
Abandoned(job) ==
    IF job.kind = "cli" /\ job.browser # 0
        THEN [browsers EXCEPT ![job.browser] = "closed"]
    ELSE browsers

\* the operation the export awaits rejects
EngineFail(j) ==
    /\ jobs[j].pc = "engine"
    /\ ~ServerBusy
    /\ EngineFaults < MaxEngineFaults
    /\ LET job == jobs[j]
           step == Steps[job.done + 1]
       IN  /\ step \in Fallible
           /\ browsers' = Abandoned(job)
           /\ jobs' = [jobs EXCEPT ![j] =
                          Thrown([job EXCEPT !.fault = step], step \o " failed")]
    /\ UNCHANGED <<puppeteer, photos>>

ExportInit ==
    /\ puppeteer \in BOOLEAN
    /\ jobs = <<>>
    /\ browsers = <<>>
    /\ photos = [dir |-> TRUE, files |-> <<>>]
    /\ ServerIdle
    /\ LocalizerIdle
    /\ RendererIdle
    /\ BuilderIdle
    /\ ClientIdle

notJobVars == <<serverVars, localizerVars, rendererVars, builderVars, clientVars>>

ExportNext ==
    \/ \E kind \in {"library", "cli"} : Start(kind, "ok") /\ UNCHANGED notJobVars
    \/ \E body \in Bodies : Start("export", body) /\ UNCHANGED notJobVars
    \/ \E j \in 1..Len(jobs) : Begin(j) /\ UNCHANGED notJobVars
    \/ \E j \in 1..Len(jobs) : EngineStep(j) /\ UNCHANGED notJobVars
    \/ \E j \in 1..Len(jobs) : EngineFail(j) /\ UNCHANGED notJobVars

SpecExport == ExportInit /\ [][ExportNext]_vars

----------------------------------------------------------------------------
(* Claims about the PDF export *)

Over(job) == job.pc = "end"

\* C13: when an export has returned or thrown, also after an engine
\* operation of it has thrown, the browser instance it launched is closed;
\* no two exports have the same browser instance.
C13_BrowserClosedOnEveryPath ==
    /\ \A j \in 1..Len(jobs) :
          (Over(jobs[j]) /\ jobs[j].browser # 0) =>
              browsers[jobs[j].browser] = "closed"
    /\ \A i, j \in 1..Len(jobs) :
          (i # j /\ jobs[i].browser # 0) => jobs[i].browser # jobs[j].browser

\* C14: when puppeteer is not installed, an export that gets as far as the
\* engine launches no browser, is tried once, and its caller sees the
\* failure: the library's caller the thrown error, the service's client a
\* response 500 that names the cause, the command line tool's user exit 1.
C14_UnavailableEngineSurfaces ==
    ~puppeteer =>
        /\ browsers = <<>>
        /\ \A j \in 1..Len(jobs) :
              LET job == jobs[j] IN
              /\ job.tries <= 1 /\ job.log = <<>>
              /\ (Over(job) /\ job.tries = 1) =>
                    CASE job.kind = "library" ->
                            job.result = "thrown" /\ job.msg = NotInstalled
                      [] job.kind = "cli" -> job.result = "exited" /\ job.exit = 1
                      [] job.kind = "export" ->
                            /\ job.sent = 1 /\ job.code = 500
                            /\ job.msg = "Failed to generate PDF: " \o NotInstalled
              /\ (job.body = "ok" /\ job.pc # "start") => (Over(job) /\ job.tries = 1)

\* C14 witness: without puppeteer the service has answered an export 500
\* and the command line tool has exited with 1
C14_Witness ==
    /\ ~puppeteer
    /\ \E i, j \in 1..Len(jobs) :
          /\ jobs[i].kind = "export" /\ jobs[i].code = 500 /\ jobs[i].tries = 1
          /\ jobs[j].kind = "cli" /\ jobs[j].exit = 1

ClaimedOrder ==
    <<"launch", "newPage", "setViewport", "setContent", "fontsReady",
      "delay", "pdf", "close">>

\* C15: the operations of every export happen in the order launch, new page,
\* set viewport, set content, fonts ready, delay, capture, close: the
\* capture comes after the markup is loaded, the fonts are ready and the
\* delay is over.
C15_CaptureAfterLoadAndDelay ==
    \A j \in 1..Len(jobs) :
        /\ Len(jobs[j].log) <= Len(ClaimedOrder)
        /\ jobs[j].log = SubSeq(ClaimedOrder, 1, Len(jobs[j].log))

\* C15 witness: an export of the service and one of the library have
\* captured the PDF, the first has also closed its browser and returned
C15_Witness ==
    \E i, j \in 1..Len(jobs) :
        /\ jobs[i].kind = "export" /\ jobs[i].code = 200 /\ Len(jobs[i].log) = 8
        /\ jobs[j].kind = "library" /\ Len(jobs[j].log) = 7
        /\ jobs[j].log[7] = "pdf"

----------------------------------------------------------------------------
(* The editor service as a whole: fetch, save, preview, export, upload *)

\* a mutant of AllowedTypes: GIF images are accepted too
AllowedTypesWithGif == {"image/jpeg", "image/png", "image/webp", "image/gif"}

\* fileFilter: allowedTypes
AllowedTypes == {"image/jpeg", "image/png", "image/webp"}

\* limits.fileSize, in bytes
FileSizeLimit == 5 * 1024 * 1024

\* the uploads of the model: a file in the field photo with a type and a
\* size, a file in another field, no file at all
Uploads ==
    {[field |-> "photo", mime |-> m, size |-> z, ext |-> ".jpg"] :
        m \in {"image/jpeg", "image/webp", "image/gif"},
        z \in {FileSizeLimit, FileSizeLimit + 1}}
    \cup {[field |-> f, mime |-> "image/png", size |-> 1024, ext |-> ".png"] :
            f \in {"photo", "other"}}
    \cup {[field |-> "none", mime |-> "", size |-> 0, ext |-> ""]}

\* no request has brought the server process down
ServerUp == \A j \in 1..Len(jobs) : jobs[j].result # "crashed"

\* the requests that reached the service so far
Requests == Len(jobs) + Cardinality(reqs) + hist.okSaves + hist.faults

\* POST /api/upload-photo reaches the service
StartUpload(upload) ==
    /\ Len(jobs) < MaxJobs
    /\ ~ServerBusy
    /\ jobs' = Append(jobs, Job("upload", "", upload))
    /\ UNCHANGED <<puppeteer, browsers, photos>>

\* filename: `portrait_${Date.now()}${ext}`
PortraitName(now, ext) == "portrait_" \o ToString(now) \o ext

\* upload.single('photo') reads the request up to the start of the file:
\* a file in another field and a file of a type fileFilter refuses go to the
\* error handling middleware; a request without a file goes to the handler,
\* which answers 400; otherwise destination and filename are called and the
\* file is opened for writing. mkdirSync in destination either succeeds or
\* throws, and nothing catches what it throws: the process ends.
UploadReceive(j) ==
    /\ jobs[j].pc = "start"
    /\ jobs[j].kind = "upload"
    /\ ~ServerBusy
    /\ LET job == jobs[j]
           up == job.upload
       IN  IF up.field = "none"
               THEN /\ jobs' = [jobs EXCEPT ![j] = Respond2(job, 400, "No file uploaded")]
                    /\ UNCHANGED <<clock, photos>>
           ELSE IF up.field # "photo"
               THEN /\ jobs' = [jobs EXCEPT ![j] = Respond2(job, 500, "Unexpected field")]
                    /\ UNCHANGED <<clock, photos>>
           ELSE IF up.mime \notin AllowedTypes
               THEN /\ jobs' = [jobs EXCEPT ![j] =
                           Respond2(job, 500, "Only JPEG, PNG, and WebP images are allowed")]
                    /\ UNCHANGED <<clock, photos>>
           ELSE \E made \in BOOLEAN, now \in {clock, clock + 1} :
                   /\ now <= FirstTick + MaxTicks
                   /\ made \/ ~photos.dir
                   /\ IF made
                          THEN /\ clock' = now
                               /\ photos' =
                                    [dir |-> TRUE,
                                     files |-> [n \in DOMAIN photos.files
                                                      \cup {PortraitName(now, up.ext)} |->
                                                  IF n = PortraitName(now, up.ext) THEN j
                                                  ELSE photos.files[n]]]
                               /\ jobs' = [jobs EXCEPT ![j] =
                                     [job EXCEPT !.pc = "storing",
                                                 !.file = PortraitName(now, up.ext)]]
                      ELSE /\ jobs' = [jobs EXCEPT ![j] =
                                 [job EXCEPT !.pc = "down", !.result = "crashed"]]
                           /\ UNCHANGED <<clock, photos>>
    /\ UNCHANGED <<puppeteer, browsers>>

\* the files of fotos without the file of the name
Removed(name) ==
    [dir |-> photos.dir,
     files |-> [n \in DOMAIN photos.files \ {name} |-> photos.files[n]]]

\* the end of the file is reached or the size limit is passed: a file
\* within the limit is req.file and the handler answers with its path; a
\* file beyond the limit is removed and the error handling middleware
\* answers
UploadFinish(j) ==
    /\ jobs[j].pc = "storing"
    /\ ~ServerBusy
    /\ LET job == jobs[j]
       IN  IF job.upload.size > FileSizeLimit
               THEN /\ photos' = Removed(job.file)
                    /\ jobs' = [jobs EXCEPT ![j] = Respond2(job, 500, "File too large")]
           ELSE /\ UNCHANGED photos
                /\ jobs' = [jobs EXCEPT ![j] = Respond2(job, 200, "fotos/" \o job.file)]
    /\ UNCHANGED <<puppeteer, browsers>>

ServiceInit ==
    /\ clock = FirstTick
    /\ dataFile \in {NoFile, "docA"}
    /\ backups = [t \in {} |-> NoFile]
    /\ reqs = {}
    /\ resp = NoResp
    /\ hist = [hadDoc |-> dataFile # NoFile, okSaves |-> 0, faults |-> 0,
               lastDone |-> NoFile, newestGone |-> 0]
    /\ puppeteer \in BOOLEAN
    /\ jobs = <<>>
    /\ browsers = <<>>
    /\ photos \in {[dir |-> d, files |-> <<>>] : d \in BOOLEAN}
    /\ LocalizerIdle
    /\ RendererIdle
    /\ BuilderIdle
    /\ ClientIdle

\* a step of a save or a fetch: the jobs stay as they are
OfServer(A) == ServerUp /\ A /\ UNCHANGED <<localizerVars, rendererVars, jobVars, builderVars, clientVars>>
\* a step of a job that leaves the stored document alone
OfJob(A) ==
    ServerUp /\ A /\ UNCHANGED <<serverVars, localizerVars, rendererVars, builderVars, clientVars>>
\* a step of an upload: it reads the clock
OfUpload(A) ==
    /\ ServerUp
    /\ A
    /\ resp' = NoResp
    /\ UNCHANGED <<dataFile, backups, reqs, hist, localizerVars, rendererVars,
                   builderVars, clientVars>>

ServiceNext ==
    \/ \E b \in Docs : Requests < MaxJobs /\ OfServer(Arrive(b))
    \/ \E q \in reqs : OfServer(SaveBackup(q))
    \/ \E q \in reqs : OfServer(SavePrune(q))
    \/ \E q \in reqs : OfServer(SaveWrite(q))
    \/ OfServer(GetData)
    \/ \E kind \in {"preview", "export"}, body \in Bodies :
          Requests < MaxJobs /\ OfJob(Start(kind, body))
    \/ \E upload \in Uploads : Requests < MaxJobs /\ OfJob(StartUpload(upload))
    \/ \E j \in 1..Len(jobs) : OfJob(Begin(j))
    \/ \E j \in 1..Len(jobs) : OfJob(EngineStep(j))
    \/ \E j \in 1..Len(jobs) : OfJob(EngineFail(j))
    \/ \E j \in 1..Len(jobs) : OfUpload(UploadReceive(j))
    \/ \E j \in 1..Len(jobs) : OfJob(UploadFinish(j))

SpecService == ServiceInit /\ [][ServiceNext]_vars

----------------------------------------------------------------------------
(* Claims about the editor service *)

\* the requests for a preview, an export or an upload
ServiceJobs == {j \in 1..Len(jobs) : jobs[j].kind \in {"preview", "export", "upload"}}

\* a response is a success, or an error response with a message
WellFormed(code, msg) == code = 200 \/ (code >= 400 /\ msg # "")

\* C16: every request to the editor service (fetch, save, preview, export,
\* upload) gets exactly one response on every path: no request is answered
\* twice, a request that is over has been answered once, a failure is an
\* error response (400 or above) with a message, no operation is tried
\* again, and the server process keeps running.
C16_OneResponseOnEveryPath ==
    /\ ServerUp
    /\ \A j \in ServiceJobs :
          LET job == jobs[j] IN
          /\ job.sent <= 1
          /\ job.tries <= 1
          /\ job.pc \in {"end", "down"} =>
                (job.sent = 1 /\ WellFormed(job.code, job.msg))
    /\ resp.op # "none" => WellFormed(resp.code, resp.msg)

\* C16, without the upload whose directory cannot be made: the requests
\* that are over have one well formed response each
C16_AnsweredOnceWhenOver ==
    \A j \in ServiceJobs :
        LET job == jobs[j] IN
        /\ job.sent <= 1
        /\ job.tries <= 1
        /\ Over(job) => (job.sent = 1 /\ WellFormed(job.code, job.msg))

\* the requests to upload a photo
UploadJobs == {j \in 1..Len(jobs) : jobs[j].kind = "upload"}

\* what the claim asks of an upload: a file, of one of three types, of at
\* most 5 MB
ClaimedValid(upload) ==
    /\ upload.field = "photo"
    /\ upload.mime \in {"image/jpeg", "image/png", "image/webp"}
    /\ upload.size <= 5 * 1024 * 1024

\* the name is "portrait_", a time the clock has shown, and the extension
TimestampBased(name, ext) ==
    \E t \in FirstTick..clock : name = "portrait_" \o ToString(t) \o ext

\* the files of fotos that hold what the upload sent
HeldBy(j) == {n \in DOMAIN photos.files : photos.files[n] = j}

\* an upload that is not what the claim asks has stored nothing and is
\* answered with an error
RefusedCleanly(j) ==
    /\ jobs[j].code >= 400
    /\ jobs[j].msg # ""
    /\ HeldBy(j) = {}

\* an upload answered with success is what the claim asks for and its
\* answer is fotos/<name>, a timestamp based name
AcceptedValid(j) ==
    /\ ClaimedValid(jobs[j].upload)
    /\ TimestampBased(jobs[j].file, jobs[j].upload.ext)
    /\ jobs[j].msg = "fotos/" \o jobs[j].file

\* C17: an uploaded photo is stored, in fotos under a timestamp based name,
\* only if its type is image/jpeg, image/png or image/webp and its size is
\* at most 5 MB; any other upload stores nothing and gets an error
\* response; the path returned on success is fotos/<name> of the file that
\* was stored, a file that holds what the upload sent.
C17_StoredOnlyIfValid ==
    \A j \in UploadJobs :
        Over(jobs[j]) =>
            /\ ~ClaimedValid(jobs[j].upload) => RefusedCleanly(j)
            /\ jobs[j].code = 200 =>
                  (AcceptedValid(j) /\ HeldBy(j) = {jobs[j].file})

\* C17, without the file behind the returned path: only uploads the claim
\* asks for are accepted, the others are refused and store nothing
C17_OnlyValidAccepted ==
    \A j \in UploadJobs :
        Over(jobs[j]) =>
            /\ ~ClaimedValid(jobs[j].upload) => RefusedCleanly(j)
            /\ jobs[j].code = 200 => AcceptedValid(j)

----------------------------------------------------------------------------
(* The site builder: generatePortfolio *)

\* the builds of a run
MaxBuilds == 2

\* const LANGUAGES = ['en', 'nl']
LANGUAGES == <<"en", "nl">>

\* the pages of a language, in the order the loop writes them; the page is
\* rendered from the template portfolio_<kind>.html
PageKinds == <<"home", "cv", "publications", "presentations">>

\* a mutant of PagePath: the home page of another language is written next
\* to the home page of the default language
PagePathHomeFlat(kind, l) ==
    IF kind = "home"
        THEN IF l = "en" THEN <<"index.html">> ELSE <<l \o ".html">>
    ELSE IF l = "en" THEN <<kind, "index.html">> ELSE <<kind, l \o ".html">>

\* a mutant of PagePath: the pages of every language but the home page are
\* written to index.html of the page's directory
PagePathShared(kind, l) ==
    IF kind = "home"
        THEN IF l = "en" THEN <<"index.html">> ELSE <<l, "index.html">>
    ELSE <<kind, "index.html">>

\* homePath, cvPagePath, pubsPath, presPath: the path of a page below
\* OUTPUT_DIR, as the sequence of its names
PagePath(kind, l) ==
    IF kind = "home"
        THEN IF l = "en" THEN <<"index.html">> ELSE <<l, "index.html">>
    ELSE IF l = "en" THEN <<kind, "index.html">> ELSE <<kind, l \o ".html">>

\* the directories generatePortfolio makes below OUTPUT_DIR (and OUTPUT_DIR
\* itself, the empty path); ensureDir makes the parents too
OutputDirs ==
    {<<>>, <<"nl">>, <<"cv">>, <<"publications">>, <<"presentations">>,
     <<"assets">>, <<"assets", "css">>, <<"assets", "js">>, <<"assets", "images">>}

\* where the assets are copied to
AssetPath(asset) ==
    CASE asset = "photo" -> <<"assets", "images", "portrait.jpeg">>
      [] asset = "css" -> <<"assets", "css", "portfolio.css">>
      [] asset = "js" -> <<"assets", "js", "portfolio.js">>

\* the directory of a path
Dirname(path) == SubSeq(path, 1, Len(path) - 1)

\* cv_data.json when the build starts: a document, absent, or not JSON
Sources == {"ok", "missing", "malformed"}

\* the assets found when the build copies them
AssetSets == {{}, {"css", "js"}, {"photo", "css", "js"}}

\* a mutant of Stages: the output directory is prepared before the source
\* document is loaded
StagesCleanFirst == <<"clean", "load", "dirs", "assets", "pages">>

\* the parts of generatePortfolio, in the order of its statements
Stages == <<"load", "clean", "dirs", "assets", "pages">>

\* the part that follows a part
After(stage) ==
    LET k == CHOOSE k \in 1..Len(Stages) : Stages[k] = stage
    IN  IF k < Len(Stages) THEN Stages[k + 1] ELSE "return"

\* process.exit(status), or the function returns and the process ends with 0
Exit(b, status) == [b EXCEPT !.pc = "end", !.exit = status]

\* a file of the tree: a page of a language or an asset, and the build that
\* wrote it (0: it was there before the first build)
File(kind, l, n) == [kind |-> kind, lang |-> l, n |-> n]

\* the tree with content written to path
Write(tree, path, content) ==
    [tree EXCEPT !.files = [p \in DOMAIN tree.files \cup {path} |->
                               IF p = path THEN content ELSE tree.files[p]]]

\* an output tree left by something else than a build of this run: a page
\* of an old layout, a page at a path the builder writes too
StrayTree ==
    [exists |-> TRUE,
     dirs |-> {<<>>, <<"nl">>, <<"nl", "cv">>},
     files |-> [p \in {<<"index.html">>, <<"nl", "cv", "index.html">>} |->
                  File("stray", "", 0)]]

BuildInit ==
    /\ docs \in {NoTree, StrayTree}
    /\ build = NoBuild
    /\ ServerIdle
    /\ LocalizerIdle
    /\ RendererIdle
    /\ JobsIdle
    /\ ClientIdle

\* node generate_portfolio.js
StartBuild(source, templates, assets) ==
    /\ build.pc \in {"idle", "end"}
    /\ build.n < MaxBuilds
    /\ build' = [pc |-> Stages[1], n |-> build.n + 1, source |-> source,
                 templates |-> templates, assets |-> assets, i |-> 0,
                 exit |-> -1, before |-> docs, written |-> <<>>]
    /\ UNCHANGED docs

\* if (!fs.existsSync(DATA_FILE)) process.exit(1); JSON.parse throws on a
\* file that is not JSON and generatePortfolio().catch exits with 1
Load ==
    /\ build.pc = "load"
    /\ build' = IF build.source = "ok" THEN [build EXCEPT !.pc = After("load")]
                ELSE Exit(build, 1)
    /\ UNCHANGED docs

\* if (fs.existsSync(OUTPUT_DIR)) fs.rmSync(OUTPUT_DIR, { recursive: true })
Clean ==
    /\ build.pc = "clean"
    /\ docs' = NoTree
    /\ build' = [build EXCEPT !.pc = After("clean")]

\* ensureDir(OUTPUT_DIR), ensureDir(path.join(OUTPUT_DIR, 'nl')), ...
MakeDirs ==
    /\ build.pc = "dirs"
    /\ docs' = [docs EXCEPT !.exists = TRUE, !.dirs = @ \cup OutputDirs]
    /\ build' = [build EXCEPT !.pc = After("dirs")]

\* the tree after the assets that exist are copied
RECURSIVE Copied(_, _, _)
Copied(tree, assets, n) ==
    IF assets = {} THEN tree
    ELSE LET asset == CHOOSE a \in assets : TRUE
         IN  Copied(Write([tree EXCEPT !.dirs = @ \cup {Dirname(AssetPath(asset))}],
                          AssetPath(asset), File("asset", "", n)),
                    assets \ {asset}, n)

\* copy the photo, the style sheet and the script, each if it exists
CopyAssets ==
    /\ build.pc = "assets"
    /\ docs' = Copied(docs, build.assets, build.n)
    /\ build' = [build EXCEPT !.pc = After("assets")]

\* the language and the page kind of the i-th page the loop writes
LangAt(i) == LANGUAGES[((i - 1) \div Len(PageKinds)) + 1]
KindAt(i) == PageKinds[((i - 1) % Len(PageKinds)) + 1]

\* the build after the next page: renderTemplate throws when the template
\* cannot be loaded, fs.writeFileSync throws when the directory of the path
\* does not exist; either way generatePortfolio().catch exits with 1
PageWritten(b, path) ==
    IF ~b.templates \/ Dirname(path) \notin docs.dirs THEN Exit(b, 1)
    ELSE [b EXCEPT !.i = @ + 1, !.written = Append(@, path)]

\* one page of the loop: renderTemplate(env, template, data, lang) and
\* fs.writeFileSync(path, html)
WritePage ==
    /\ build.pc = "pages"
    /\ build.i < Len(LANGUAGES) * Len(PageKinds)
    /\ LET kind == KindAt(build.i + 1)
           l == LangAt(build.i + 1)
           path == PagePath(kind, l)
       IN  /\ build' = PageWritten(build, path)
           /\ docs' = IF build'.pc = "end" THEN docs
                      ELSE Write(docs, path, File(kind, l, build.n))

\* the loop is over and generatePortfolio returns
Return ==
    /\ build.pc = "pages"
    /\ build.i = Len(LANGUAGES) * Len(PageKinds)
    /\ build' = Exit(build, 0)
    /\ UNCHANGED docs

notBuilderVars == <<serverVars, localizerVars, rendererVars, jobVars, clientVars>>

BuildNext ==
    \/ \E source \in Sources, templates \in BOOLEAN, assets \in AssetSets :
          StartBuild(source, templates, assets) /\ UNCHANGED notBuilderVars
    \/ Load /\ UNCHANGED notBuilderVars
    \/ Clean /\ UNCHANGED notBuilderVars
    \/ MakeDirs /\ UNCHANGED notBuilderVars
    \/ CopyAssets /\ UNCHANGED notBuilderVars
    \/ WritePage /\ UNCHANGED notBuilderVars
    \/ Return /\ UNCHANGED notBuilderVars

SpecBuild == BuildInit /\ [][BuildNext]_vars

----------------------------------------------------------------------------
(* Claims about the site builder *)

\* the files of the output tree that are pages
PagesOf(tree) ==
    {p \in DOMAIN tree.files :
        tree.files[p].kind \in {PageKinds[k] : k \in 1..Len(PageKinds)}}

\* the root layout: index.html, cv/index.html, publications/index.html,
\* presentations/index.html
RootLayout(kind) == IF kind = "home" THEN <<"index.html">> ELSE <<kind, "index.html">>

\* the path is below the directory named after the language
UnderLanguageDirectory(path, l) == Len(path) >= 2 /\ path[1] = l

\* the build has run to its end and exited with 0
Built == build.pc = "end" /\ build.exit = 0

\* C18 as stated: every page is written to a language specific path: the
\* four pages of the default language en at the root layout, the four pages
\* of every other language below the directory named after the language.
C18_OthersUnderLanguageDirectory ==
    \A p \in PagesOf(docs) :
        LET f == docs.files[p] IN
        IF f.lang = "en" THEN p = RootLayout(f.kind)
        ELSE UnderLanguageDirectory(p, f.lang)

\* where the pages of a language are written: the home page of another
\* language than en below the directory named after the language, its
\* other pages in the directory of the page kind under the name <lang>.html
LayoutInCode(kind, l) ==
    IF l = "en" THEN RootLayout(kind)
    ELSE IF kind = "home" THEN <<l, "index.html">>
    ELSE <<kind, l \o ".html">>

\* C18, amended: every page is written to a language specific path: the
\* pages of en at the root layout; of another language the home page at
\* <lang>/index.html and the other three pages at <kind>/<lang>.html. A
\* build that succeeded has written all of them.
C18_LanguageSpecificPaths ==
    /\ \A p \in PagesOf(docs) :
          p = LayoutInCode(docs.files[p].kind, docs.files[p].lang)
    /\ Built =>
          \A k \in 1..Len(PageKinds), i \in 1..Len(LANGUAGES) :
              /\ LayoutInCode(PageKinds[k], LANGUAGES[i]) \in DOMAIN docs.files
              /\ docs.files[LayoutInCode(PageKinds[k], LANGUAGES[i])] =
                    File(PageKinds[k], LANGUAGES[i], build.n)

\* C18 witness: a build has succeeded and the Dutch CV page is cv/nl.html
C18_Witness ==
    /\ Built
    /\ <<"cv", "nl.html">> \in DOMAIN docs.files
    /\ docs.files[<<"cv", "nl.html">>].lang = "nl"
    /\ docs.files[<<"nl", "index.html">>].kind = "home"

\* C19: a build that succeeded has written one page for each page kind and
\* each language, eight files at eight paths, none written twice, each
\* rendered with its language; no file of the output tree is older than
\* the build.
C19_EightPagesNothingStale ==
    Built =>
        /\ Cardinality(PagesOf(docs)) = 8
        /\ \A kind \in {"home", "cv", "publications", "presentations"}, l \in {"en", "nl"} :
              Cardinality({p \in PagesOf(docs) :
                              docs.files[p] = File(kind, l, build.n)}) = 1
        /\ Len(build.written) = 8
        /\ \A i, j \in 1..Len(build.written) :
              i # j => build.written[i] # build.written[j]
        /\ \A p \in DOMAIN docs.files : docs.files[p].n = build.n

\* C19 witness: a second build has succeeded over the tree the first one
\* left, and that tree had pages
C19_Witness ==
    /\ Built
    /\ build.n = 2
    /\ PagesOf(build.before) # {}
    /\ Cardinality(DOMAIN docs.files) = 11

\* C20: when cv_data.json is missing the build exits with a status other
\* than 0 and the output tree stays as it was when the build started:
\* nothing is removed, made or written.
C20_FailsFastOnMissingSource ==
    (build.pc # "idle" /\ build.source = "missing") =>
        /\ docs = build.before
        /\ build.pc \in {"load", "end"}
        /\ build.pc = "end" => build.exit = 1

\* C20 witness: a build without cv_data.json has ended over a site built
\* before, and the site is still there
C20_Witness ==
    /\ build.pc = "end"
    /\ build.source = "missing"
    /\ build.exit = 1
    /\ build.n = 2
    /\ Cardinality(PagesOf(docs)) = 8

----------------------------------------------------------------------------
(* The PDF command line tool: generate_cv.js *)

\* the items of an argument list
MaxItems == 3

\* args[++i] past the end of the list: undefined, which is no path and no
\* language
NoValue == ""

\* what argument lists are made of: a flag, a flag with a value, a flag
\* that takes the word after it as its value
ArgItems ==
    {<<"--help">>, <<"-h">>, <<"--html">>, <<"--lang", "en">>, <<"-l", "nl">>,
     <<"--lang", "de">>, <<"--output", "my.pdf">>, <<"-o">>, <<"--lang">>}

RECURSIVE ArgLists(_)
ArgLists(n) ==
    IF n = 0 THEN {<<>>}
    ELSE LET shorter == ArgLists(n - 1)
         IN  shorter \cup {args \o item : args \in shorter, item \in ArgItems}

\* process.argv.slice(2)
Argvs == ArgLists(MaxItems)

\* const options = { data: null, template: null, output: null, html: false,
\* langs: [] }; help: the help text was printed and the process has exited
NoOptions ==
    [data |-> NoValue, template |-> NoValue, output |-> NoValue, html |-> FALSE,
     langs |-> <<>>, help |-> FALSE]

\* the loop of parseArgs from args[i] on
RECURSIVE ParseFrom(_, _, _)
ParseFrom(args, i, options) ==
    IF i > Len(args) THEN options
    ELSE LET value == IF i + 1 <= Len(args) THEN args[i + 1] ELSE NoValue
         IN  CASE args[i] \in {"--data", "-d"} ->
                    ParseFrom(args, i + 2, [options EXCEPT !.data = value])
               [] args[i] \in {"--template", "-t"} ->
                    ParseFrom(args, i + 2, [options EXCEPT !.template = value])
               [] args[i] \in {"--output", "-o"} ->
                    ParseFrom(args, i + 2, [options EXCEPT !.output = value])
               [] args[i] = "--html" ->
                    ParseFrom(args, i + 1, [options EXCEPT !.html = TRUE])
               [] args[i] \in {"--lang", "-l"} ->
                    ParseFrom(args, i + 2, [options EXCEPT !.langs = Append(@, value)])
               [] args[i] \in {"--help", "-h"} -> [options EXCEPT !.help = TRUE]
               [] OTHER -> ParseFrom(args, i + 1, options)

\* parseArgs(): English when no language is given
ParseArgs(args) ==
    LET options == ParseFrom(args, 1, NoOptions)
    IN  IF ~options.help /\ options.langs = <<>>
            THEN [options EXCEPT !.langs = <<"en">>]
        ELSE options

\* what the run finds: everything it needs, no data file, no template, a
\* data file that is not JSON
Environments == {"ok", "no data", "no template", "bad json"}

\* a line of the console, of language k of options.langs where it is about
\* one
Event(ev, k) == [ev |-> ev, k |-> k]

\* process.exit(status) after the lines printed
CliExit(c, status, events) ==
    [c EXCEPT !.pc = "end", !.exit = status, !.log = @ \o events]

\* the run before main is called
Started(args) ==
    [pc |-> "main", args |-> args, options |-> NoOptions, k |-> 1, log |-> <<>>,
     files |-> <<>>, over |-> {}, read |-> FALSE, exit |-> -1]

\* a mutant of Main: the data file and the template are looked for before
\* the arguments are parsed
MainValidatesFirst(args, env) ==
    LET options == ParseArgs(args)
        c == [Started(args) EXCEPT !.options = options]
    IN  IF env = "no data" \/ env = "no template"
            THEN CliExit(c, 1, <<Event("error", 0)>>)
        ELSE IF options.help THEN CliExit(c, 0, <<Event("usage", 0)>>)
        ELSE IF env = "bad json"
            THEN CliExit([c EXCEPT !.read = TRUE], 1, <<Event("error", 0)>>)
        ELSE [c EXCEPT !.pc = "loop", !.read = TRUE]

\* main() up to its loop: parseArgs prints the usage and exits with 0 at a
\* help flag; a missing data file or template is an error and exit 1;
\* JSON.parse throws and main().catch logs the error and exits with 1
Main(args, env) ==
    LET options == ParseArgs(args)
        c == [Started(args) EXCEPT !.options = options]
    IN  IF options.help THEN CliExit(c, 0, <<Event("usage", 0)>>)
        ELSE IF env = "no data" \/ env = "no template"
            THEN CliExit(c, 1, <<Event("error", 0)>>)
        ELSE IF env = "bad json"
            THEN CliExit([c EXCEPT !.read = TRUE], 1, <<Event("error", 0)>>)
        ELSE [c EXCEPT !.pc = "loop", !.read = TRUE]

\* a path as its part before the extension .pdf (in any case) and that
\* extension, if it has it
SplitExt(p) == IF p = "my.pdf" THEN <<"my", ".pdf">> ELSE <<p, "">>

\* cv_${name}_${lang}.pdf in scriptDir
DefaultPath(l) == <<"cv_name_" \o l, ".pdf">>

\* let outputPath = options.output;
\* if (!outputPath || options.langs.length > 1) outputPath = the default
OutputPath(options, l) ==
    IF options.output = NoValue \/ Len(options.langs) > 1 THEN DefaultPath(l)
    ELSE SplitExt(options.output)

\* outputPath.replace(/\.pdf$/i, '.html')
HtmlPath(path) == IF path[2] = ".pdf" THEN <<path[1], ".html">> ELSE path

\* the run after a file of language k is written to path: over gets the
\* language whose file was there and the language that replaced it
WriteOut(c, path, kind) ==
    [c EXCEPT !.files = [p \in DOMAIN c.files \cup {path} |->
                            IF p = path
                                THEN [kind |-> kind, lang |-> c.options.langs[c.k],
                                      k |-> c.k]
                            ELSE c.files[p]],
              !.over = IF path \in DOMAIN c.files
                           THEN @ \cup {<<c.files[path].lang, c.options.langs[c.k]>>}
                       ELSE @]

\* a mutant of Unknown: the loop ends at a language that is not known
UnknownStops(c) == CliExit(c, 0, <<Event("warn", c.k), Event("done", 0)>>)

\* console.warn(`Warning: Unknown language '${lang}', skipping...`); continue
Unknown(c) == [c EXCEPT !.k = @ + 1, !.log = Append(@, Event("warn", c.k))]

\* generateForLanguage up to the call of generatePDF: the HTML is rendered
\* and, with --html, written next to the PDF
RenderedFor(c) ==
    LET l == c.options.langs[c.k]
        path == OutputPath(c.options, l)
        begun == [c EXCEPT !.pc = "pdf", !.log = Append(@, Event("start", c.k))]
    IN  IF c.options.html
            THEN [WriteOut(begun, HtmlPath(path), "html") EXCEPT
                      !.log = Append(@, Event("html", c.k))]
        ELSE begun

\* generatePDF resolves: the PDF is written and the loop goes on; or it
\* fails (puppeteer is not installed, an operation of the browser rejects):
\* the error is logged and the process exits with 1
Generated(c, ok) ==
    IF ok
        THEN [WriteOut(c, OutputPath(c.options, c.options.langs[c.k]), "pdf") EXCEPT
                  !.pc = "loop", !.k = @ + 1, !.log = Append(@, Event("pdf", c.k))]
    ELSE CliExit(c, 1, <<Event("error", c.k)>>)

\* for (const lang of options.langs): one turn of the loop up to its await
NextLanguage(c) ==
    IF c.options.langs[c.k] \notin {"en", "nl"} THEN Unknown(c) ELSE RenderedFor(c)

CliInit ==
    /\ cli = NoCli
    /\ editor = NoEditor
    /\ theme = NoTheme
    /\ ServerIdle
    /\ LocalizerIdle
    /\ RendererIdle
    /\ JobsIdle
    /\ BuilderIdle

notCliVars ==
    <<serverVars, localizerVars, rendererVars, jobVars, builderVars, editor, theme>>

\* node generate_cv.js args
Invoke ==
    /\ cli.pc = "idle"
    /\ \E args \in Argvs, env \in Environments : cli' = Main(args, env)
    /\ UNCHANGED notCliVars

\* the loop takes the next language
Turn ==
    /\ cli.pc = "loop"
    /\ cli.k <= Len(cli.options.langs)
    /\ cli' = NextLanguage(cli)
    /\ UNCHANGED notCliVars

\* await generatePDF(htmlContent, outputPath, scriptDir)
AwaitPdf(ok) ==
    /\ cli.pc = "pdf"
    /\ cli' = Generated(cli, ok)
    /\ UNCHANGED notCliVars

\* console.log('\nDone!') and the process ends
Done ==
    /\ cli.pc = "loop"
    /\ cli.k > Len(cli.options.langs)
    /\ cli' = CliExit(cli, 0, <<Event("done", 0)>>)
    /\ UNCHANGED notCliVars

CliNext ==
    \/ Invoke
    \/ Turn
    \/ \E ok \in BOOLEAN : AwaitPdf(ok)
    \/ Done

SpecCli == CliInit /\ [][CliNext]_vars

----------------------------------------------------------------------------
(* Claims about the PDF command line tool *)

HelpFlags == {"--help", "-h"}

\* the usage text is printed, the exit status is 0, the data file was not
\* read and no file was written
HelpServed ==
    /\ cli.pc = "end"
    /\ cli.exit = 0
    /\ cli.log = <<Event("usage", 0)>>
    /\ ~cli.read
    /\ cli.files = <<>>

\* C21 as stated: whenever --help or -h occurs in the argument list, at any
\* position and with any other flags, the usage is printed and the process
\* exits with 0, without reading the data file or generating a file.
C21_HelpAtAnyPosition ==
    (cli.pc # "idle" /\ \E i \in 1..Len(cli.args) : cli.args[i] \in HelpFlags) =>
        HelpServed

\* the flags that take the word after them as their value
ValueFlags == {"--data", "-d", "--template", "-t", "--output", "-o", "--lang", "-l"}

\* the word at position i is read as a flag: it is not the value of the
\* flag before it
RECURSIVE ReadAsFlag(_, _)
ReadAsFlag(args, i) ==
    \/ i = 1
    \/ i > 1 /\ ReadAsFlag(args, i - 1) /\ args[i - 1] \notin ValueFlags
    \/ i > 2 /\ ReadAsFlag(args, i - 2) /\ args[i - 2] \in ValueFlags

\* C21, amended: whenever --help or -h occurs in the argument list where a
\* flag is read (not as the value of --data, --template, --output, --lang
\* or their short forms), with any other flags before and after it, the
\* usage is printed and the process exits with 0, without reading the data
\* file or generating a file.
C21_HelpWhereFlagIsRead ==
    (cli.pc # "idle" /\ \E i \in 1..Len(cli.args) :
                            cli.args[i] \in HelpFlags /\ ReadAsFlag(cli.args, i)) =>
        HelpServed

\* C21 witness: help is served for --html --output my.pdf followed by a
\* help flag
C21_Witness ==
    /\ cli.pc = "end"
    /\ HelpServed
    /\ Len(cli.args) = 4
    /\ cli.args[1] = "--html"
    /\ cli.args[4] \in HelpFlags
    /\ cli.options.output = "my.pdf"

\* the run got past parseArgs
Parsed == cli.pc # "idle" /\ ~cli.options.help

\* the language the loop has at position k is one the tool knows
KnownAt(k) == cli.options.langs[k] \in {"en", "nl"}

\* the log has the line
Logged(ev, k) == \E i \in 1..Len(cli.log) : cli.log[i] = Event(ev, k)

\* C22: the languages are processed one after another in the order of the
\* arguments, English alone when none is given: a language starts only
\* when every language before it is finished (its PDF written) or skipped;
\* a code other than en and nl is skipped and the ones after it are still
\* processed; a failure is logged, ends the run with a status other than 0,
\* and nothing of a later language is generated.
C22_LanguagesOneAfterAnother ==
    Parsed =>
        LET langs == cli.options.langs
            log == cli.log
        IN  /\ (\A i \in 1..Len(cli.args) : cli.args[i] \notin {"--lang", "-l"}) =>
                  langs = <<"en">>
            /\ \A i, j \in 1..Len(log) :
                  (i < j /\ log[i].k # 0 /\ log[j].k # 0) => log[i].k <= log[j].k
            /\ \A i \in 1..Len(log) :
                  log[i].ev \in {"start", "html", "pdf"} =>
                      /\ KnownAt(log[i].k)
                      /\ \A k \in 1..(log[i].k - 1) :
                            IF KnownAt(k) THEN Logged("pdf", k) ELSE Logged("warn", k)
            /\ \A i \in 1..Len(log) :
                  log[i].ev = "error" =>
                      (i = Len(log) /\ cli.pc = "end" /\ cli.exit > 0)
            /\ (cli.pc = "end" /\ cli.exit = 0) =>
                  \A k \in 1..Len(langs) :
                      IF KnownAt(k) THEN Logged("pdf", k) ELSE Logged("warn", k)
            /\ cli.pc = "end" => (cli.exit = 0 \/ Logged("error", cli.k) \/ Logged("error", 0))
            /\ \A p \in DOMAIN cli.files : cli.files[p].k <= cli.k

\* C22 witness: of de, en, nl the first is skipped, the second generated,
\* the third fails and ends the run with exit 1
C22_Witness ==
    /\ cli.pc = "end"
    /\ cli.exit = 1
    /\ cli.options.langs = <<"de", "en", "nl">>
    /\ cli.log = <<Event("warn", 1), Event("start", 2), Event("pdf", 2),
                   Event("start", 3), Event("error", 3)>>

\* the languages the run has generated a PDF for
GeneratedLangs == {cli.options.langs[k] : k \in {k \in 1..Len(cli.options.langs) : Logged("pdf", k)}}

\* the run has ended with 0 and was given a path with --output
RanWithOutput == Parsed /\ cli.pc = "end" /\ cli.exit = 0 /\ cli.options.output # NoValue

\* the file at the path is the PDF of the language
PdfAt(path, l) ==
    path \in DOMAIN cli.files /\ cli.files[path].kind = "pdf" /\ cli.files[path].lang = l

\* no file of one language was replaced by a file of another language
NoneOverwritten == \A pair \in cli.over : pair[1] = pair[2]

\* C23 as stated: --output is honoured exactly when one language is
\* generated; when more than one language is generated each is written to
\* its default path cv_<name>_<lang>.pdf; in one run no file of a language
\* overwrites a file of another language.
C23_OutputHonouredForOneLanguage ==
    /\ RanWithOutput =>
          /\ Cardinality(GeneratedLangs) = 1 <=>
                \E l \in GeneratedLangs : PdfAt(SplitExt(cli.options.output), l)
          /\ Cardinality(GeneratedLangs) > 1 =>
                \A l \in GeneratedLangs : PdfAt(<<"cv_name_" \o l, ".pdf">>, l)
    /\ cli.pc # "idle" => NoneOverwritten

\* C23, with the languages asked for in place of the languages generated:
\* --output is honoured exactly when one language code is given or none
C23_OutputHonouredForOneCode ==
    /\ RanWithOutput =>
          /\ (Len(cli.options.langs) = 1 /\ GeneratedLangs # {}) <=>
                \E l \in GeneratedLangs : PdfAt(SplitExt(cli.options.output), l)
          /\ Len(cli.options.langs) > 1 =>
                \A l \in GeneratedLangs : PdfAt(<<"cv_name_" \o l, ".pdf">>, l)
    /\ cli.pc # "idle" => NoneOverwritten

----------------------------------------------------------------------------
(* A claim about failed saves of the editor service *)

\* the step just taken answered a save with an error
SaveFailed == resp'.op = "save" /\ resp'.code >= 400

\* C24: a save that ends with an error response leaves the stored document
\* as it was before the request, whichever step fails (the backup copy,
\* the pruning of old backups, the write): it is not lost, truncated or
\* replaced. The handler runs without interruption, so the document before
\* its failing step is the document before the request.
C24_FailedSaveKeepsDocument == [][SaveFailed => dataFile' = dataFile]_vars

\* C24, without the write: a failed save changes the stored document only
\* when the write itself fails, and then it leaves a truncated file
C24_KeptUnlessWriteFails ==
    [][(SaveFailed /\ dataFile' # dataFile) =>
          (dataFile' = Truncated /\ \E q \in reqs : q.pc = "write")]_vars

----------------------------------------------------------------------------
(* The editor client: editor/app.js *)

\* the user's edits and the preview requests of a run
MaxEdits == 2
MaxPreviews == 3

\* debounce(refreshPreview, 500)
Delay == 500

\* the steps of the time, in milliseconds
Gaps == {250, 500}

\* no document change yet
Never == -1

\* the time since a change is counted up to here
Long == Delay + 250

\* the documents the server may hold: 0 is {} (nothing the defaults of data
\* do not have), 1 is a document; the documents 2, 3, ... are made by edits
ServerDocs == {0, 1}

\* the preview frame before the first response
NoFrame == [id |-> 0, data |-> 0, lang |-> ""]

\* setup(): the refs and data as they are made, before onMounted
Setup ==
    [pc |-> "open", loading |-> TRUE, error |-> FALSE, saving |-> FALSE,
     hasUnsavedChanges |-> FALSE, previewLang |-> "en", data |-> 0,
     load |-> "none", synced |-> 0, body |-> 0, edits |-> 0,
     previewTimeout |-> 0, timers |-> {}, set |-> 0,
     previews |-> {}, sent |-> 0, frame |-> NoFrame, shown |-> 0,
     failed |-> FALSE, sinceChange |-> Never, burst |-> 0, requests |-> 0,
     firedAfter |-> Never]

\* a timer: its id and the time left until it is due
Timer(id, left) == [id |-> id, left |-> left]

\* a mutant of Debounce: the pending timer is not cleared
DebounceNoClear(e) ==
    [e EXCEPT !.timers = @ \cup {Timer(e.set + 1, Delay)},
              !.previewTimeout = e.set + 1, !.set = @ + 1]

\* debouncedRefreshPreview(): clearTimeout(previewTimeout);
\* previewTimeout = setTimeout(refreshPreview, 500)
Debounce(e) ==
    [e EXCEPT !.timers = {t \in @ : t.id # e.previewTimeout}
                            \cup {Timer(e.set + 1, Delay)},
              !.previewTimeout = e.set + 1, !.set = @ + 1]

\* watch(data, ...): the document has changed, the callback sets
\* hasUnsavedChanges and calls the debounced refresh
\* (history: sinceChange, the time since the last change; burst, the
\* changes that followed one another by less than the delay, up to this
\* one; requests, the debounced requests sent since the last change)
WatchData(e) ==
    Debounce([e EXCEPT !.hasUnsavedChanges = TRUE,
                       !.burst = IF e.sinceChange # Never /\ e.sinceChange < Delay
                                     THEN @ + 1 ELSE 1,
                       !.sinceChange = 0, !.requests = 0, !.firedAfter = Never])

\* refreshPreview() up to its await: POST /api/preview with the document
\* and previewLang as they are now
RefreshPreview(e) ==
    [e EXCEPT !.sent = @ + 1,
              !.previews = @ \cup {[id |-> e.sent + 1, data |-> e.data,
                                   lang |-> e.previewLang]}]

\* loadData() after the response of GET /api/data. With a document:
\* Object.assign(data, json) and the normalisation change data unless json
\* adds nothing, which queues the callback of watch(data);
\* hasUnsavedChanges.value = false; await nextTick(), during which the
\* queued callback runs; refreshPreview(); finally loading.value = false.
\* Without one: error.value = err.message; loading.value = false.
LoadData(e, ok, json) ==
    IF ok
        THEN LET merged == [e EXCEPT !.data = json, !.synced = json, !.load = "done"]
                 reset == [merged EXCEPT !.hasUnsavedChanges = FALSE]
                 flushed == IF json # e.data THEN WatchData(reset) ELSE reset
             IN  [RefreshPreview(flushed) EXCEPT !.loading = FALSE]
    ELSE [e EXCEPT !.load = "failed", !.error = TRUE, !.loading = FALSE]

\* saveData() after the response of POST /api/data
SaveData(e, ok) ==
    IF ok THEN [e EXCEPT !.hasUnsavedChanges = FALSE, !.synced = e.body,
                         !.saving = FALSE]
    ELSE [e EXCEPT !.saving = FALSE]

\* refreshPreview() after the response of POST /api/preview:
\* iframe.srcdoc = html, or console.error
Previewed(e, r, ok) ==
    IF ok THEN [e EXCEPT !.previews = @ \ {r}, !.frame = r,
                         !.shown = IF r.id > @ THEN r.id ELSE @]
    ELSE [e EXCEPT !.previews = @ \ {r}, !.failed = TRUE]

EditorInit ==
    /\ editor = NoEditor
    /\ cli = NoCli
    /\ theme = NoTheme
    /\ ServerIdle
    /\ LocalizerIdle
    /\ RendererIdle
    /\ JobsIdle
    /\ BuilderIdle

notEditorVars ==
    <<serverVars, localizerVars, rendererVars, jobVars, builderVars, cli, theme>>

\* app.mount('#app'): onMounted calls loadData(), which sends GET /api/data
Mount ==
    /\ editor.pc = "closed"
    /\ editor' = [Setup EXCEPT !.load = "flight"]
    /\ UNCHANGED notEditorVars

\* the response of GET /api/data arrives
LoadResponse ==
    /\ editor.pc = "open"
    /\ editor.load = "flight"
    /\ \E ok \in BOOLEAN, json \in ServerDocs : editor' = LoadData(editor, ok, json)
    /\ UNCHANGED notEditorVars

\* the user changes a field: data changes and the callback of watch(data)
\* runs before anything else does
Edit ==
    /\ editor.pc = "open"
    /\ editor.load = "done"
    /\ editor.edits < MaxEdits
    /\ editor' = WatchData([editor EXCEPT !.data = 2 + editor.edits, !.edits = @ + 1])
    /\ UNCHANGED notEditorVars

\* the user picks the other preview language: watch(previewLang) calls
\* refreshPreview()
SwitchLang ==
    /\ editor.pc = "open"
    /\ editor.load = "done"
    /\ editor.sent < MaxPreviews
    /\ editor' = RefreshPreview(
                    [editor EXCEPT !.previewLang = IF @ = "en" THEN "nl" ELSE "en"])
    /\ UNCHANGED notEditorVars

\* Ctrl+S with hasUnsavedChanges && !saving: saveData() up to its await
SaveStart ==
    /\ editor.pc = "open"
    /\ editor.hasUnsavedChanges
    /\ ~editor.saving
    /\ editor' = [editor EXCEPT !.saving = TRUE, !.body = editor.data]
    /\ UNCHANGED notEditorVars

\* the response of POST /api/data arrives
SaveResponse ==
    /\ editor.pc = "open"
    /\ editor.saving
    /\ \E ok \in BOOLEAN : editor' = SaveData(editor, ok)
    /\ UNCHANGED notEditorVars

\* a timer of the debounced refresh is due: refreshPreview()
TimerFire ==
    /\ editor.pc = "open"
    /\ editor.sent < MaxPreviews
    /\ \E t \in editor.timers :
          /\ t.left = 0
          /\ editor' = RefreshPreview([editor EXCEPT !.timers = @ \ {t},
                                                     !.requests = @ + 1,
                                                     !.firedAfter = editor.sinceChange])
    /\ UNCHANGED notEditorVars

\* a response of POST /api/preview arrives, in any order
PreviewResponse ==
    /\ editor.pc = "open"
    /\ \E r \in editor.previews, ok \in BOOLEAN : editor' = Previewed(editor, r, ok)
    /\ UNCHANGED notEditorVars

\* the timers and the time since the last change after gap milliseconds
Later(e, gap) ==
    [e EXCEPT !.timers = {Timer(t.id, t.left - gap) : t \in @},
              !.sinceChange = IF @ = Never THEN Never
                              ELSE IF @ + gap > Long THEN Long ELSE @ + gap]

\* time passes, not beyond the time a timer is due
Tick ==
    /\ editor.pc = "open"
    /\ \E gap \in Gaps :
          /\ \A t \in editor.timers : t.left >= gap
          /\ editor' = Later(editor, gap)
    /\ UNCHANGED notEditorVars

EditorNext ==
    \/ Mount
    \/ LoadResponse
    \/ Edit
    \/ SwitchLang
    \/ SaveStart
    \/ SaveResponse
    \/ TimerFire
    \/ PreviewResponse
    \/ Tick

SpecEditor == EditorInit /\ [][EditorNext]_vars

----------------------------------------------------------------------------
(* Claims about the editor client *)

\* the page is open and loadData has got its document
Loaded == editor.pc = "open" /\ editor.load = "done"

\* C25: hasUnsavedChanges is false only when the document in memory is the
\* document last saved to or loaded from the server; an edit made while a
\* save is in flight is still unsaved after the response of that save.
C25_CleanOnlyWhenSaved ==
    (Loaded /\ ~editor.hasUnsavedChanges) => editor.data = editor.synced

\* C25, while no save is answered after an edit made during it: as long as
\* what a save has sent is what is in memory when it is answered, a clean
\* flag means the document is the one saved or loaded
C25_CleanWhenNoEditInFlight ==
    [][(editor.pc = "open" /\ editor'.pc = "open" /\ editor.saving
        /\ ~editor'.saving /\ ~editor'.hasUnsavedChanges /\ editor.body = editor.data)
          => editor'.data = editor'.synced]_vars

\* C26: after loadData has completed with a document and before the user
\* has edited anything, hasUnsavedChanges is false and loading is false;
\* after loadData has failed, error is set and loading is false.
C26_LoadLeavesClean ==
    /\ (Loaded /\ editor.edits = 0 /\ editor.synced = editor.data) =>
          (~editor.hasUnsavedChanges /\ ~editor.loading)
    /\ (editor.pc = "open" /\ editor.load = "failed") =>
          (editor.error /\ ~editor.loading)

\* C26, for loading alone and for a document that changes nothing: loading
\* is false after loadData, error is set when it failed, and the flag is
\* clean when the fetched document adds nothing to the defaults
C26_LoadingEndsAndEmptyIsClean ==
    /\ Loaded => ~editor.loading
    /\ (Loaded /\ editor.edits = 0 /\ editor.data = 0) => ~editor.hasUnsavedChanges
    /\ (editor.pc = "open" /\ editor.load = "failed") =>
          (editor.error /\ ~editor.loading)

\* nothing is pending: no preview request is unanswered, no debounced
\* refresh is waiting, and no preview request has failed
Settled ==
    /\ Loaded
    /\ editor.previews = {}
    /\ editor.timers = {}
    /\ ~editor.failed

\* C27: once edits and language switches have stopped and every preview
\* request is answered, the frame shows the latest document in the latest
\* language; the response of an older request never replaces the content
\* of a newer one.
C27_FrameShowsLatest ==
    /\ editor.pc = "open" => editor.frame.id = editor.shown
    /\ Settled =>
          (editor.frame.data = editor.data /\ editor.frame.lang = editor.previewLang)

\* C27, when the responses arrive in the order of the requests: the frame
\* then shows the latest request's document and language
C27_LatestWhenInOrder ==
    (Settled /\ editor.frame.id = editor.sent) =>
        (editor.frame.data = editor.data /\ editor.frame.lang = editor.previewLang)

\* C28: document changes are debounced: changes that follow one another by
\* less than 500 ms send one preview request, 500 ms after the last of
\* them: none before, one from then on; at most one debounced refresh is
\* pending at any time.
C28_Debounced ==
    editor.pc = "open" =>
        /\ Cardinality(editor.timers) <= 1
        /\ editor.requests <= 1
        /\ editor.requests = 1 => editor.firedAfter = 500
        /\ (editor.sinceChange # Never /\ editor.sinceChange < 500) =>
              editor.requests = 0
        /\ editor.sinceChange > 500 => editor.requests = 1
        /\ (editor.sinceChange # Never /\ editor.requests = 0) =>
              \E t \in editor.timers : t.left = 500 - editor.sinceChange

\* C28 witness: two changes less than 500 ms apart have sent one request,
\* 500 ms after the second
C28_Witness ==
    /\ editor.pc = "open"
    /\ editor.burst = 2
    /\ editor.requests = 1
    /\ editor.firedAfter = 500
    /\ editor.timers = {}

----------------------------------------------------------------------------
(* The theme of the portfolio site: ThemeManager of portfolio.js *)

\* the clicks, preference changes and page loads of a run
MaxThemeEvents == 5

\* no data-theme attribute, nothing stored under portfolio-theme
None == ""

\* the theme the page has: toggleTheme reads a missing attribute as light
Current(attr) == IF attr = None THEN "light" ELSE attr

\* a mutant of SetTheme: the theme is applied and not stored
SetThemeNotStored(t, name) == [t EXCEPT !.attr = name]

\* setTheme(theme): setAttribute('data-theme', theme) and
\* localStorage.setItem(STORAGE_KEY, theme)
SetTheme(t, name) == [t EXCEPT !.attr = name, !.stored = name]

\* init(): the saved theme is applied when there is one, else dark when the
\* system prefers dark
ThemeInit(t) ==
    IF t.stored # None THEN SetTheme(t, t.stored)
    ELSE IF t.system = "dark" THEN SetTheme(t, "dark")
    ELSE t

\* toggleTheme()
ToggleTheme(t) ==
    SetTheme(t, IF Current(t.attr) = "light" THEN "dark" ELSE "light")

\* the listener of the system preference: the theme follows when nothing is
\* stored
PreferenceChanged(t) ==
    IF t.stored = None THEN SetTheme(t, t.system) ELSE t

\* what happened is noted (history): the kind of the event and of the one
\* before it, the theme before each of the two, the clicks so far
Noted(t, old, kind) ==
    [t EXCEPT !.n = old.n + 1, !.last = kind, !.last2 = old.last,
              !.was = Current(old.attr), !.was2 = old.was,
              !.clicked = old.clicked \/ kind = "click",
              !.chosen = IF kind = "click" THEN t.attr ELSE old.chosen]

\* the first visit of a page of the site: nothing is stored yet
FirstVisit(system) ==
    [pc |-> "open", attr |-> None, stored |-> None, system |-> system,
     clicked |-> FALSE, chosen |-> None, n |-> 0, last |-> "none",
     last2 |-> "none", was |-> "light", was2 |-> "light"]

SiteInit ==
    /\ theme = NoTheme
    /\ cli = NoCli
    /\ editor = NoEditor
    /\ ServerIdle
    /\ LocalizerIdle
    /\ RendererIdle
    /\ JobsIdle
    /\ BuilderIdle

notThemeVars ==
    <<serverVars, localizerVars, rendererVars, jobVars, builderVars, cli, editor>>

\* a page of the site is loaded, for the first time or again: the document
\* is new (its attribute is the one of the markup), localStorage is kept,
\* the system preference is what it is by then, and ThemeManager.init() runs
PageLoad ==
    /\ \/ theme.pc = "closed"
       \/ theme.pc = "open" /\ theme.n < MaxThemeEvents
    /\ \E system \in {"light", "dark"}, markup \in {None, "light"} :
          LET old == IF theme.pc = "closed" THEN FirstVisit(system)
                     ELSE [theme EXCEPT !.system = system]
          IN  theme' = Noted(ThemeInit([old EXCEPT !.attr = markup]), old, "load")
    /\ UNCHANGED notThemeVars

\* the visitor clicks the theme toggle
Click ==
    /\ theme.pc = "open"
    /\ theme.n < MaxThemeEvents
    /\ theme' = Noted(ToggleTheme(theme), theme, "click")
    /\ UNCHANGED notThemeVars

\* the system colour scheme preference changes
SystemChange ==
    /\ theme.pc = "open"
    /\ theme.n < MaxThemeEvents
    /\ LET changed == [theme EXCEPT !.system = IF @ = "light" THEN "dark" ELSE "light"]
       IN  theme' = Noted(PreferenceChanged(changed), theme, "system")
    /\ UNCHANGED notThemeVars

SiteNext ==
    \/ PageLoad
    \/ Click
    \/ SystemChange

SpecSite == SiteInit /\ [][SiteNext]_vars

----------------------------------------------------------------------------
(* Claims about the theme *)

\* C29: as long as the visitor has never clicked the toggle the theme is
\* the system preference, after every change of the preference; once the
\* visitor has clicked, a change of the preference does not alter the theme.
C29_FollowsSystemUntilClicked ==
    theme.pc = "open" =>
        /\ ~theme.clicked => Current(theme.attr) = theme.system
        /\ (theme.clicked /\ theme.last = "system") => Current(theme.attr) = theme.was

\* C29, while nothing is stored: the theme is the system preference as long
\* as nothing is stored under portfolio-theme, and a change of the
\* preference does not alter the theme once something is
C29_FollowsWhileNothingStored ==
    theme.pc = "open" =>
        /\ theme.stored = None => Current(theme.attr) = theme.system
        /\ (theme.clicked /\ theme.last = "system") => Current(theme.attr) = theme.was

\* C30: whenever a theme is stored under portfolio-theme the data-theme
\* attribute is the stored theme; a click switches the theme between light
\* and dark, two clicks in a row restore it, and the theme chosen by a
\* click is the theme after the next page load.
C30_AttributeIsStoredTheme ==
    theme.pc = "open" =>
        /\ theme.stored # None => theme.attr = theme.stored
        /\ theme.last = "click" =>
              /\ theme.attr \in {"light", "dark"}
              /\ theme.attr # theme.was
        /\ (theme.last = "click" /\ theme.last2 = "click") => theme.attr = theme.was2
        /\ (theme.last = "load" /\ theme.clicked) => theme.attr = theme.chosen

\* C30 witness: the visitor chose dark by a click while the system prefers
\* light, and the page loaded after that is dark
C30_Witness ==
    /\ theme.pc = "open"
    /\ theme.last = "load"
    /\ theme.last2 = "click"
    /\ theme.chosen = "dark"
    /\ theme.attr = "dark"
    /\ theme.system = "light"

====
